---- MODULE Spec2Model ----
(***************************************************************************)
(* Connection registry, transaction coordinator and query executor of the  *)
(* SQL Runner extension (connectionManager.ts, queryRunner.ts,             *)
(* extension.ts).                                                          *)
(*                                                                         *)
(* The extension runs on one JavaScript thread.  An async function runs    *)
(* without interruption up to its next await; every await is a point where *)
(* other handlers may run.  Each action below is one such segment of one   *)
(* invocation ("task"): the code from the call (or from the resumption of  *)
(* an await) up to the next await, return or throw.  A backend operation   *)
(* that is awaited either resolves or rejects.                             *)
(*                                                                         *)
(* DbClient objects and pool clients are heap cells addressed by small     *)
(* integers.  A cell that no reference reaches any more is reclaimed; if a *)
(* handle was left open on it (or a pool client was not released exactly   *)
(* once), it stays in the state the segment that dropped it ends in, so    *)
(* that the leak can be seen there, and is swept by the next segment.      *)
(***************************************************************************)
EXTENDS Integers, FiniteSets, Sequences, TLC

\* ---------------------------------------------------------------- bounds
NumTasks == 2          \* invocations that may be in flight at once
NumIds == 1            \* connection profiles (ids)
NumShutdownIds == 2    \* connection profiles (ids) of the shutdown runs
MaxObjs == 2           \* DbClient objects (and their main handles) alive
MaxClients == 2        \* pool clients checked out or leaked
MaxUncommitted == 2    \* cap on uncommittedQueries

Tasks == 1..NumTasks
Ids == 1..NumIds
ShutdownIds == 1..NumShutdownIds
Objs == 1..MaxObjs
Clients == 1..MaxClients

\* ----------------------------------------------------------- vocabulary
None == 0
Free == [free |-> TRUE]
DbTypes == {"postgresql", "mysql", "sqlite"}
AutoCommitModes == {"auto", "off", "smart"}
\* What isSelect tells of a statement: it starts with "select", or not.
Queries == {"select", "other"}
\* A run's inputs: its statement, and the sql-runner.autoCommit setting as
\* the user has left it when the run reads it.
\* What a backend returns for a statement that succeeds: a row set with its
\* columns (no rows, or the rows "a" or "b"), or the summary of a statement
\* that returns no rows (INSERT, UPDATE, ...).
NoRows == "none"
RowSets == {NoRows, "a", "b"}
Dml == [tabular |-> FALSE, rows |-> NoRows]
NonTabular == {Dml}
Results == {[tabular |-> TRUE, rows |-> d] : d \in RowSets} \cup NonTabular
NoResult == [tabular |-> FALSE, rows |-> "null"]
\* let lastQueryResult = null
NoLastResult == [null |-> TRUE]
NoQuery == [select |-> "none", autoCommit |-> "none", opened |-> FALSE, result |-> NoResult]
Opened == [NoQuery EXCEPT !.opened = TRUE]
\* Before any raw result was handled.
NoRaw == [handled |-> FALSE]
\* Before any export.
NoFile == [format |-> "none", columns |-> <<>>, content |-> <<>>, message |-> "none"]
\* Before any statement was run from an editor.
NoText == [path |-> "none", text |-> <<>>, defaultLimit |-> 0, query |-> <<>>]

VARIABLES
    activeConnections,  \* the registry: id -> DbClient object, or None
    heap,               \* DbClient objects
    clients,            \* PostgreSQL pool clients that were checked out
    lastQueryResult,    \* the retained result: rows, and whether it has columns
    sent,               \* the last statement text handed to
                        \* executeAndShowResults, and what it was made from
    written,            \* the last export: its format, its columns, the
                        \* content of the file and the message shown
    shown,              \* the last raw driver result handled: what it was
                        \* and what was counted and reported for it
    connections,        \* setting sql-runner.connections: id -> dbType
    activeConnection,   \* setting sql-runner.activeConnection: id or None
    op,                 \* per task: the operation it is running
    pc,                 \* per task: where it is suspended
    arg,                \* per task: the connection id it works on
    cs,                 \* per task: local connectionState (object or None)
    txs,                \* per task: connectionState inside begin/commit/rollback
    cl,                 \* per task: local client / poolClient (or None)
    query,              \* per task: the run's statement and the value of
                        \* sql-runner.autoCommit it reads, until the
                        \* policy has decided on them
    outcome             \* per task: how the invocation ended

config == <<connections, activeConnection>>
locals == <<op, pc, arg, cs, txs, cl, query, outcome>>
vars == <<activeConnections, heap, clients, lastQueryResult, sent, written, shown, connections, activeConnection,
          op, pc, arg, cs, txs, cl, query, outcome>>

\* ---------------------------------------------------------- scheduling
\* A finished invocation's caller (the command handler awaiting it) resumes
\* in a microtask, before any other handler or backend callback runs: while
\* an invocation is at "done", nothing but its Return is taken.  The same
\* holds inside a run for the await of getDbClient, which returned without
\* suspending ("run_resolved"), and for the await of a beginTransaction that
\* has just returned ("run_begun").
Resuming == {"done", "run_resolved", "run_begun", "disconnect_start"}
Running == \A u \in Tasks : pc[u] \notin Resuming
Ready == IF Running THEN Tasks ELSE {}

\* ------------------------------------------------------------ the heap
\* A DbClient as built by connect; id is the profile it was made for.
DbClient(id, dbType) ==
    [id |-> id,
     dbType |-> dbType,
     mainClient |-> "null",
     transactionClient |-> None,
     uncommittedQueries |-> 0,
     inTransaction |-> FALSE,
     mainTx |-> FALSE]

\* A pool client as returned by pool.connect(): checked out, no BEGIN yet.
PoolClient(id) == [id |-> id, tx |-> FALSE, released |-> 0]

\* A cell is garbage once neither the registry nor a running invocation
\* (for a pool client: nor a reachable object) refers to it.
GarbageObj(o) ==
    /\ heap[o] # Free
    /\ \A i \in DOMAIN activeConnections : activeConnections[i] # o
    /\ \A t \in Tasks : cs[t] # o /\ txs[t] # o

sweptHeap == [o \in Objs |-> IF GarbageObj(o) THEN Free ELSE heap[o]]

GarbageClient(k) ==
    /\ clients[k] # Free
    /\ \A o \in Objs : sweptHeap[o] = Free \/ sweptHeap[o].transactionClient # k
    /\ \A t \in Tasks : cl[t] # k

sweptClients == [k \in Clients |-> IF GarbageClient(k) THEN Free ELSE clients[k]]

\* Allocation takes the first cell that is free once the garbage is swept.
HasFreeObj == \E o \in Objs : sweptHeap[o] = Free
NewObj == CHOOSE o \in Objs : sweptHeap[o] = Free /\ \A p \in Objs : p < o => sweptHeap[p] # Free
HasFreeClient == \E k \in Clients : sweptClients[k] = Free
NewClient == CHOOSE k \in Clients : sweptClients[k] = Free /\ \A p \in Clients : p < k => sweptClients[p] # Free

\* The end of every segment: h and c are the swept heap and pool clients
\* with the segment's writes.  Cells the segment made unreachable are
\* reclaimed at once unless something was left open on them.  The text of
\* the statement is made before the first segment and no segment rewrites
\* it, and none writes a file.  The handling of a raw driver result is looked
\* at on its own further down.
Sweep(h, c) ==
    /\ heap' = [o \in Objs |->
          IF /\ h[o] # Free
             /\ \A i \in DOMAIN activeConnections' : activeConnections'[i] # o
             /\ \A t \in Tasks : cs'[t] # o /\ txs'[t] # o
             /\ h[o].mainClient # "open"
             /\ h[o].transactionClient = None
          THEN Free ELSE h[o]]
    /\ clients' = [k \in Clients |->
          IF /\ c[k] # Free
             /\ \A o \in Objs : heap'[o] = Free \/ heap'[o].transactionClient # k
             /\ \A t \in Tasks : cl'[t] # k
             /\ c[k].released = 1
             /\ ~c[k].tx
          THEN Free ELSE c[k]]
    /\ sent' = sent
    /\ written' = written
    /\ shown' = shown

\* No segment but the end of a successful run writes lastQueryResult.
Collect(h, c) == Sweep(h, c) /\ lastQueryResult' = lastQueryResult

\* A release that hands the client back twice.
Release_twice(c, k) == [c EXCEPT ![k].released = 2]

\* client.release(): hands the client back to its pool.
Release(c, k) == [c EXCEPT ![k].released = IF @ < 2 THEN @ + 1 ELSE 2]

\* ---------------------------------------------------------------- Init
Init ==
    /\ activeConnections = [i \in Ids |-> None]
    /\ heap = [o \in Objs |-> Free]
    /\ clients = [k \in Clients |-> Free]
    /\ lastQueryResult = NoLastResult
    /\ sent = NoText
    /\ written = NoFile
    /\ shown = NoRaw
    /\ connections \in [Ids -> DbTypes]
    /\ activeConnection = None
    /\ op = [t \in Tasks |-> "none"]
    /\ pc = [t \in Tasks |-> "idle"]
    /\ arg = [t \in Tasks |-> None]
    /\ cs = [t \in Tasks |-> None]
    /\ txs = [t \in Tasks |-> None]
    /\ cl = [t \in Tasks |-> None]
    /\ query = [t \in Tasks |-> NoQuery]
    /\ outcome = [t \in Tasks |-> "none"]

\* ------------------------------------------------- registry: lookups
getConnectionState(id) == activeConnections[id]

\* The handle a statement is sent on: <<"tx", client>>, <<"main", object>>
\* or, for undefined, <<"none", None>>.
getClient(id) ==
    LET connectionState == activeConnections[id] IN
    IF connectionState = None THEN <<"none", None>>
    ELSE IF heap[connectionState].transactionClient # None
         THEN <<"tx", heap[connectionState].transactionClient>>
         ELSE <<"main", connectionState>>

\* The locals of invocation t after a segment: connectionState c, the
\* coordinator's connectionState x, the client k and the statement q.  Once
\* the invocation is over they are gone; connect keeps the state it returns.
\* The statement and the policy setting are read at the policy decision; a
\* run that awaits beginTransaction there is marked opened until it ends:
\* it found its connection Idle and called beginTransaction itself.
LocalsOf(t, c, x, k, q) ==
    /\ query' = [query EXCEPT ![t] = IF pc'[t] = "done" THEN NoQuery ELSE q]
    /\ cs' = [cs EXCEPT ![t] = IF pc'[t] = "done" /\ op'[t] # "connect" THEN None ELSE c]
    /\ txs' = [txs EXCEPT ![t] = IF pc'[t] = "done" THEN None ELSE x]
    /\ cl' = [cl EXCEPT ![t] = IF pc'[t] = "done" THEN None ELSE k]

Locals(t, c, x, k) == LocalsOf(t, c, x, k, NoQuery)

\* ------------------------------------------------- registry: connect
\* A lookup that never finds the id: connect without its early return.
has_never(id) == FALSE

\* this.activeConnections.has(connection.id)
has(id) == activeConnections[id] # None

\* connect(connection) up to its first await, or to its early return.
connect_call(t, id) ==
    /\ pc[t] = "idle"
    /\ op' = [op EXCEPT ![t] = "connect"]
    /\ arg' = [arg EXCEPT ![t] = id]
    /\ UNCHANGED <<activeConnections, config>>
    /\ IF has(id)
       THEN /\ pc' = [pc EXCEPT ![t] = "done"]
            /\ outcome' = [outcome EXCEPT ![t] = "ok"]
            /\ Locals(t, activeConnections[id], None, None)
            /\ Collect(sweptHeap, sweptClients)
       ELSE /\ HasFreeObj
            /\ pc' = [pc EXCEPT ![t] = "connect_await"]
            /\ outcome' = [outcome EXCEPT ![t] = "none"]
            /\ Locals(t, NewObj, None, None)
            /\ Collect([sweptHeap EXCEPT ![NewObj] = DbClient(id, connections[id])], sweptClients)

\* The backend accepted: the handle is stored in the new state, the state in
\* the registry, and the state is returned.
connect_resolve(t) ==
    /\ pc[t] = "connect_await"
    /\ activeConnections' = [activeConnections EXCEPT ![arg[t]] = cs[t]]
    /\ pc' = [pc EXCEPT ![t] = "done"]
    /\ outcome' = [outcome EXCEPT ![t] = "ok"]
    /\ UNCHANGED <<config, op, arg>>
    /\ Locals(t, cs[t], None, None)
    /\ Collect([sweptHeap EXCEPT ![cs[t]].mainClient = "open"], sweptClients)

\* A connect that registers its state before the backend answers: the
\* state stays registered when the backend refuses.
connect_reject_registered(t) ==
    /\ pc[t] = "connect_await"
    /\ activeConnections' = [activeConnections EXCEPT ![arg[t]] = cs[t]]
    /\ pc' = [pc EXCEPT ![t] = "done"]
    /\ outcome' = [outcome EXCEPT ![t] = "error"]
    /\ UNCHANGED <<config, op, arg>>
    /\ Locals(t, None, None, None)
    /\ Collect(sweptHeap, sweptClients)

\* The backend refused: the error is shown and rethrown.
connect_reject(t) ==
    /\ pc[t] = "connect_await"
    /\ pc' = [pc EXCEPT ![t] = "done"]
    /\ outcome' = [outcome EXCEPT ![t] = "error"]
    /\ UNCHANGED <<activeConnections, config, op, arg>>
    /\ Locals(t, None, None, None)
    /\ Collect(sweptHeap, sweptClients)

\* ---------------------------------------------- registry: disconnect
\* A disconnect that ends the transaction as a commit does.
released_ended(h, o) ==
    [h EXCEPT ![o].transactionClient = None, ![o].inTransaction = FALSE,
              ![o].uncommittedQueries = 0]

\* disconnect's only write to the state: transactionClient = undefined.
released(h, o) == [h EXCEPT ![o].transactionClient = None]

\* disconnect(connectionId) up to its await (PostgreSQL, MySQL) or to its
\* end (SQLite, whose close is not awaited).
disconnect_enter(t, id) ==
    /\ LET connectionState == activeConnections[id] IN
       IF connectionState = None
       THEN /\ pc' = [pc EXCEPT ![t] = "done"]
            /\ outcome' = [outcome EXCEPT ![t] = "ok"]
            /\ UNCHANGED activeConnections
            /\ Locals(t, None, None, None)
            /\ Collect(sweptHeap, sweptClients)
       ELSE LET tc == heap[connectionState].transactionClient
                \* the transaction client goes back to the pool, whose idle
                \* clients the pool.end() issued next closes
                c1 == IF tc = None THEN sweptClients
                      ELSE [Release(sweptClients, tc) EXCEPT ![tc].tx = FALSE]
                h1 == released(sweptHeap, connectionState)
            IN
            IF heap[connectionState].dbType = "sqlite"
            THEN /\ activeConnections' = [activeConnections EXCEPT ![id] = None]
                 /\ pc' = [pc EXCEPT ![t] = "done"]
                 /\ outcome' = [outcome EXCEPT ![t] = "ok"]
                 /\ Locals(t, None, None, None)
                 /\ Collect([h1 EXCEPT ![connectionState].mainClient = "closed",
                                       ![connectionState].mainTx = FALSE], c1)
            ELSE /\ activeConnections' = activeConnections
                 /\ pc' = [pc EXCEPT ![t] = "disconnect_await"]
                 /\ outcome' = [outcome EXCEPT ![t] = "none"]
                 /\ Locals(t, connectionState, None, None)
                 /\ Collect([h1 EXCEPT ![connectionState].mainClient =
                                IF @ = "open" THEN "ending" ELSE @], c1)

disconnect_call(t, id) ==
    /\ pc[t] = "idle"
    /\ op' = [op EXCEPT ![t] = "disconnect"]
    /\ arg' = [arg EXCEPT ![t] = id]
    /\ UNCHANGED config
    /\ disconnect_enter(t, id)

\* A forEach that stops after its first entry.
visited_firstOnly(live) == {id \in live : \A j \in live : id <= j}

\* The entries activeConnections.forEach visits: all of them.
visited(live) == live

\* disconnectAll (called by deactivate): forEach calls the async callback
\* for every entry, one after the other, each call running disconnect(id) up
\* to its first await before the next is made.  f gives every visited id the
\* invocation that runs its disconnect.
disconnectAll(f) ==
    /\ Running
    /\ DOMAIN f = visited({id \in DOMAIN activeConnections : activeConnections[id] # None})
    /\ \A id \in DOMAIN f : pc[f[id]] = "idle"
    /\ \A id, j \in DOMAIN f : f[id] = f[j] => id = j
    /\ pc' = [t \in Tasks |-> IF \E id \in DOMAIN f : f[id] = t
                              THEN "disconnect_start" ELSE pc[t]]
    /\ op' = [t \in Tasks |-> IF \E id \in DOMAIN f : f[id] = t
                              THEN "disconnect" ELSE op[t]]
    /\ arg' = [t \in Tasks |-> IF \E id \in DOMAIN f : f[id] = t
                               THEN CHOOSE id \in DOMAIN f : f[id] = t ELSE arg[t]]
    /\ UNCHANGED <<activeConnections, config, cs, txs, cl, query, outcome>>
    /\ Collect(sweptHeap, sweptClients)

\* The callback of forEach for one entry: disconnect(id) up to its first
\* await.
disconnect_started(t) ==
    /\ pc[t] = "disconnect_start"
    /\ UNCHANGED <<config, op, arg>>
    /\ disconnect_enter(t, arg[t])

\* end() resolved: the handle is closed and the entry of the id is deleted.
disconnect_resolve(t) ==
    /\ pc[t] = "disconnect_await"
    /\ activeConnections' = [activeConnections EXCEPT ![arg[t]] = None]
    /\ pc' = [pc EXCEPT ![t] = "done"]
    /\ outcome' = [outcome EXCEPT ![t] = "ok"]
    /\ UNCHANGED <<config, op, arg>>
    /\ Locals(t, None, None, None)
    /\ Collect([sweptHeap EXCEPT ![cs[t]].mainClient = "closed",
                            ![cs[t]].mainTx = FALSE], sweptClients)

\* end() rejected: disconnect throws before the delete.
disconnect_reject(t) ==
    /\ pc[t] = "disconnect_await"
    /\ pc' = [pc EXCEPT ![t] = "done"]
    /\ outcome' = [outcome EXCEPT ![t] = "error"]
    /\ UNCHANGED <<activeConnections, config, op, arg>>
    /\ Locals(t, None, None, None)
    /\ Collect(sweptHeap, sweptClients)

\* ------------------------------------------ transaction coordinator
\* Where an invocation goes when begin/commit/rollback returns or throws:
\* a direct call is over; a run (o = "run") resumes after its begin, or ends
\* after the rollback of its catch block.
AfterReturn(o, call) == IF o = "run" /\ call = "begin" THEN "run_begun" ELSE "done"
OutcomeReturn(o, call) ==
    IF o # "run" THEN "ok"
    ELSE IF call = "begin" THEN "none" ELSE "failed_rolled_back"
OutcomeThrow(o) == IF o = "run" THEN "failed_rollback_threw" ELSE "error"

\* The guards: connectionState && !connectionState.inTransaction of
\* beginTransaction, connectionState && connectionState.inTransaction of
\* commitTransaction and rollbackTransaction.
\* A begin guard that does not look at inTransaction.
beginGuard_anyState(connectionState) == connectionState # None

beginGuard(connectionState) ==
    connectionState # None /\ ~heap[connectionState].inTransaction

endGuard(connectionState) ==
    connectionState # None /\ heap[connectionState].inTransaction

\* The writes that end a successful begin, and a successful commit or
\* rollback, on connectionState o of heap h.
begun(h, o) == [h EXCEPT ![o].inTransaction = TRUE, ![o].uncommittedQueries = 0]

\* End writes that forget inTransaction = false.
ended_stillInTransaction(h, o) == [h EXCEPT ![o].uncommittedQueries = 0]

ended(h, o) == [h EXCEPT ![o].inTransaction = FALSE, ![o].uncommittedQueries = 0]

\* beginTransaction(connectionId) up to its first await, or to its return
\* when the guard fails.  o is the operation the call is made from and c
\* the caller's own connectionState.
beginTransaction_enter(t, id, o, c) ==
    LET connectionState == getConnectionState(id) IN
    IF beginGuard(connectionState)
    THEN /\ pc' = [pc EXCEPT ![t] =
                     IF heap[connectionState].dbType = "postgresql"
                     THEN "begin_connect" ELSE "begin_begin"]
         /\ outcome' = [outcome EXCEPT ![t] = "none"]
         /\ LocalsOf(t, c, connectionState, None, IF o = "run" THEN Opened ELSE NoQuery)
    ELSE /\ pc' = [pc EXCEPT ![t] = AfterReturn(o, "begin")]
         /\ outcome' = [outcome EXCEPT ![t] = OutcomeReturn(o, "begin")]
         /\ LocalsOf(t, c, None, None, IF o = "run" THEN Opened ELSE NoQuery)

beginTransaction_call(t, id) ==
    /\ pc[t] = "idle"
    /\ op' = [op EXCEPT ![t] = "begin"]
    /\ arg' = [arg EXCEPT ![t] = id]
    /\ UNCHANGED <<activeConnections, config>>
    /\ beginTransaction_enter(t, id, "begin", None)
    /\ Collect(sweptHeap, sweptClients)

\* pool.connect() resolved: a client is checked out and BEGIN is sent on it.
beginTransaction_connected(t) ==
    /\ pc[t] = "begin_connect"
    /\ HasFreeClient
    /\ pc' = [pc EXCEPT ![t] = "begin_begin"]
    /\ UNCHANGED <<activeConnections, config, op, arg, outcome>>
    /\ LocalsOf(t, cs[t], txs[t], NewClient, query[t])
    /\ Collect(sweptHeap, [sweptClients EXCEPT ![NewClient] = PoolClient(heap[txs[t]].id)])

\* BEGIN resolved: the dedicated client is stored (PostgreSQL) and the state
\* becomes InTransaction with a zero count.
beginTransaction_resolve(t) ==
    /\ pc[t] = "begin_begin"
    /\ pc' = [pc EXCEPT ![t] = AfterReturn(op[t], "begin")]
    /\ outcome' = [outcome EXCEPT ![t] = OutcomeReturn(op[t], "begin")]
    /\ UNCHANGED <<activeConnections, config, op, arg>>
    /\ LocalsOf(t, cs[t], None, None, query[t])
    /\ LET connectionState == txs[t]
           pg == heap[connectionState].dbType = "postgresql"
           h1 == IF pg
                 THEN [sweptHeap EXCEPT ![connectionState].transactionClient = cl[t]]
                 ELSE [sweptHeap EXCEPT ![connectionState].mainTx = TRUE]
           c1 == IF pg THEN [sweptClients EXCEPT ![cl[t]].tx = TRUE] ELSE sweptClients
       IN Collect(begun(h1, connectionState), c1)

\* pool.connect() or BEGIN rejected in a direct call: beginTransaction throws.
beginTransaction_reject(t) ==
    /\ pc[t] \in {"begin_connect", "begin_begin"}
    /\ op[t] = "begin"
    /\ pc' = [pc EXCEPT ![t] = "done"]
    /\ outcome' = [outcome EXCEPT ![t] = "error"]
    /\ UNCHANGED <<activeConnections, config, op, arg>>
    /\ Locals(t, None, None, None)
    /\ Collect(sweptHeap, sweptClients)

\* commitTransaction / rollbackTransaction up to the await of the COMMIT /
\* ROLLBACK statement, or to the return when the guard fails.  For
\* PostgreSQL the statement is sent on the stored transaction client; with
\* none stored, client.query throws a TypeError.
endTransaction_enter(t, id, o, call, c) ==
    LET connectionState == getConnectionState(id) IN
    IF endGuard(connectionState)
    THEN IF /\ heap[connectionState].dbType = "postgresql"
            /\ heap[connectionState].transactionClient = None
         THEN /\ pc' = [pc EXCEPT ![t] = "done"]
              /\ outcome' = [outcome EXCEPT ![t] = OutcomeThrow(o)]
              /\ Locals(t, c, None, None)
         ELSE /\ pc' = [pc EXCEPT ![t] = IF call = "commit" THEN "commit_await"
                                         ELSE "rollback_await"]
              /\ outcome' = [outcome EXCEPT ![t] = "none"]
              /\ Locals(t, c, connectionState, heap[connectionState].transactionClient)
    ELSE /\ pc' = [pc EXCEPT ![t] = "done"]
         /\ outcome' = [outcome EXCEPT ![t] = OutcomeReturn(o, call)]
         /\ Locals(t, c, None, None)

commitTransaction_call(t, id) ==
    /\ pc[t] = "idle"
    /\ op' = [op EXCEPT ![t] = "commit"]
    /\ arg' = [arg EXCEPT ![t] = id]
    /\ UNCHANGED <<activeConnections, config>>
    /\ endTransaction_enter(t, id, "commit", "commit", None)
    /\ Collect(sweptHeap, sweptClients)

rollbackTransaction_call(t, id) ==
    /\ pc[t] = "idle"
    /\ op' = [op EXCEPT ![t] = "rollback"]
    /\ arg' = [arg EXCEPT ![t] = id]
    /\ UNCHANGED <<activeConnections, config>>
    /\ endTransaction_enter(t, id, "rollback", "rollback", None)
    /\ Collect(sweptHeap, sweptClients)

\* COMMIT / ROLLBACK resolved.  PostgreSQL: the client is released and the
\* reference cleared; a release of a client that is already back in its pool
\* either throws (throws = TRUE) or goes through, depending on the pool.
\* Then the state becomes Idle with a zero count.
endTransaction_resolve(t, throws) ==
    /\ pc[t] \in {"commit_await", "rollback_await"}
    /\ UNCHANGED <<activeConnections, config, op, arg>>
    /\ pc' = [pc EXCEPT ![t] = "done"]
    /\ Locals(t, None, None, None)
    /\ LET connectionState == txs[t]
           pg == heap[connectionState].dbType = "postgresql"
           again == pg /\ clients[cl[t]].released > 0
           c1 == IF pg THEN Release([sweptClients EXCEPT ![cl[t]].tx = FALSE], cl[t])
                 ELSE sweptClients
           h1 == IF pg
                 THEN [sweptHeap EXCEPT ![connectionState].transactionClient = None]
                 ELSE [sweptHeap EXCEPT ![connectionState].mainTx = FALSE]
       IN
       IF again /\ throws
       THEN /\ outcome' = [outcome EXCEPT ![t] = OutcomeThrow(op[t])]
            /\ Collect(sweptHeap, c1)
       ELSE /\ ~throws
            /\ outcome' = [outcome EXCEPT ![t] = OutcomeReturn(op[t], "end")]
            /\ Collect(ended(h1, connectionState), c1)

\* A commit / rollback that resets the state in a finally block: the state
\* becomes Idle although the statement failed.
endTransaction_reject_reset(t) ==
    /\ pc[t] \in {"commit_await", "rollback_await"}
    /\ pc' = [pc EXCEPT ![t] = "done"]
    /\ outcome' = [outcome EXCEPT ![t] = OutcomeThrow(op[t])]
    /\ UNCHANGED <<activeConnections, config, op, arg>>
    /\ Locals(t, None, None, None)
    /\ Collect(ended(sweptHeap, txs[t]), sweptClients)

\* COMMIT / ROLLBACK rejected: the operation throws at the await.
endTransaction_reject(t) ==
    /\ pc[t] \in {"commit_await", "rollback_await"}
    /\ pc' = [pc EXCEPT ![t] = "done"]
    /\ outcome' = [outcome EXCEPT ![t] = OutcomeThrow(op[t])]
    /\ UNCHANGED <<activeConnections, config, op, arg>>
    /\ Locals(t, None, None, None)
    /\ Collect(sweptHeap, sweptClients)

\* A catch block that rolls back whatever state the run holds.
catchRollsBack_anyState(c) == c # None /\ activeConnection # None

\* The catch block's test: connectionState && connectionState.inTransaction
\* && activeConnectionId, the id being read from the settings again.
catchRollsBack(c) ==
    c # None /\ heap[c].inTransaction /\ activeConnection # None

\* ----------------------------------------------------- query executor
\* The catch block of executeAndShowResults, entered with the local
\* connectionState c and the pool clients k: with a connectionState that is
\* in a transaction and an active id configured,
\* rollbackTransaction(activeConnectionId) is awaited; otherwise the bare
\* failure is reported.
run_catch(t, c, k) ==
    /\ IF catchRollsBack(c)
       THEN endTransaction_enter(t, activeConnection, "run", "rollback", c)
       ELSE /\ pc' = [pc EXCEPT ![t] = "done"]
            /\ outcome' = [outcome EXCEPT ![t] = "failed"]
            /\ Locals(t, None, None, None)
    /\ Collect(sweptHeap, k)

\* Where the dispatch of a statement leaves the run: dbType is the stored
\* profile's, c the local connectionState and client what getClient
\* returned.  The PostgreSQL path outside a transaction calls
\* client.connect(), which gives a pool client on a Pool only; the SQLite
\* path calls client.all, which a Database only has; the MySQL path and the
\* PostgreSQL path inside a transaction call client.query, which a Database
\* has not.  A call the handle has not throws or rejects.
dispatched(dbType, c, client) ==
    IF dbType = "postgresql" /\ ~heap[c].inTransaction
    THEN IF client[1] = "main" /\ heap[c].dbType = "postgresql"
         THEN "run_pool_connect" ELSE "run_rejecting"
    ELSE IF dbType = "sqlite"
    THEN IF heap[c].dbType = "sqlite" THEN "run_query" ELSE "run_rejecting"
    ELSE IF heap[c].dbType = "sqlite" THEN "run_rejecting" ELSE "run_query"

\* The statement is sent: on the handle getClient(id) returns, by the path
\* of the profile's dbType, with local connectionState c.  PostgreSQL
\* outside a transaction first checks a client out of the pool.  A missing
\* state or handle makes the call throw.
run_dispatch(t, id, c, q) ==
    LET client == getClient(id) IN
    IF client[1] = "none" \/ c = None
    THEN run_catch(t, c, sweptClients)
    ELSE /\ pc' = [pc EXCEPT ![t] = dispatched(connections[id], c, client)]
         /\ outcome' = [outcome EXCEPT ![t] = "none"]
         /\ LocalsOf(t, c, None, None, q)
         /\ Collect(sweptHeap, sweptClients)

\* A getDbClient that does not test the state it looked up.
notLive_never(id) == FALSE

\* getDbClient's test of the state of the active id: !connectionState.
notLive(id) == getConnectionState(id) = None

\* runQuery / runSelectedQuery -> executeAndShowResults -> getDbClient, up
\* to the first await.
run_call(t, q, mode) ==
    /\ pc[t] = "idle"
    /\ op' = [op EXCEPT ![t] = "run"]
    /\ UNCHANGED <<activeConnections, config>>
    /\ IF activeConnection = None
       THEN /\ pc' = [pc EXCEPT ![t] = "done"]
            /\ outcome' = [outcome EXCEPT ![t] = "no_active_connection"]
            /\ arg' = arg
       ELSE /\ arg' = [arg EXCEPT ![t] = activeConnection]
            /\ outcome' = [outcome EXCEPT ![t] = "none"]
            /\ pc' = [pc EXCEPT ![t] =
                        IF notLive(activeConnection)
                        THEN "run_not_live" ELSE "run_resolved"]
    /\ LocalsOf(t, IF activeConnection = None THEN None
                   ELSE getConnectionState(activeConnection), None, None,
                IF pc'[t] = "run_resolved"
                THEN [select |-> q, autoCommit |-> mode, opened |-> FALSE,
                      result |-> NoResult]
                ELSE NoQuery)
    /\ Collect(sweptHeap, sweptClients)

\* The "is not active" message was answered (a Connect answer issues an
\* ordinary connect request, see connect_call): getDbClient throws and the
\* catch block, without a connectionState, reports the failure.
run_not_live(t) ==
    /\ pc[t] = "run_not_live"
    /\ pc' = [pc EXCEPT ![t] = "done"]
    /\ outcome' = [outcome EXCEPT ![t] = "connection_not_live"]
    /\ UNCHANGED <<activeConnections, config, op, arg>>
    /\ Locals(t, None, None, None)
    /\ Collect(sweptHeap, sweptClients)

\* query.trim().toLowerCase().startsWith('select')
isSelect(q) == q = "select"

\* Policies that get a branch wrong: one that opens a transaction under
\* every mode, one that never opens one, one whose smart mode does not look
\* at the statement.
policyBegins_everyMode(mode, select, inTransaction) == ~inTransaction

policyBegins_never(mode, select, inTransaction) == FALSE

policyBegins_smartAsOff(mode, select, inTransaction) ==
    mode \in {"off", "smart"} /\ ~inTransaction

\* The auto-commit policy: whether beginTransaction is awaited before the
\* statement is dispatched.
policyBegins(mode, select, inTransaction) ==
    \/ mode = "off" /\ ~inTransaction
    \/ mode = "smart" /\ ~select /\ ~inTransaction

\* getDbClient resolved: the settings are read again, the auto-commit
\* policy decides whether beginTransaction is awaited, else the statement is
\* dispatched.
run_policy(t) ==
    /\ pc[t] = "run_resolved"
    /\ UNCHANGED <<activeConnections, config, op>>
    /\ IF activeConnection = None
       THEN /\ arg' = arg
            /\ run_catch(t, cs[t], sweptClients)
       ELSE /\ arg' = [arg EXCEPT ![t] = activeConnection]
            /\ IF policyBegins(query[t].autoCommit, isSelect(query[t].select),
                               heap[cs[t]].inTransaction)
               THEN /\ beginTransaction_enter(t, activeConnection, "run", cs[t])
                    /\ Collect(sweptHeap, sweptClients)
               ELSE run_dispatch(t, activeConnection, cs[t], NoQuery)

\* beginTransaction returned to the run: the state is fetched again and the
\* statement dispatched.
run_begun(t) ==
    /\ pc[t] = "run_begun"
    /\ UNCHANGED <<activeConnections, config, op, arg>>
    /\ run_dispatch(t, arg[t], getConnectionState(arg[t]), query[t])

\* beginTransaction threw inside the run.
run_begin_reject(t) ==
    /\ pc[t] \in {"begin_connect", "begin_begin"}
    /\ op[t] = "run"
    /\ UNCHANGED <<activeConnections, config, op, arg>>
    /\ run_catch(t, cs[t], sweptClients)

\* client.connect() of the not-in-transaction PostgreSQL path resolved: the
\* statement is sent on the client checked out.
run_pool_connected(t) ==
    /\ pc[t] = "run_pool_connect"
    /\ HasFreeClient
    /\ pc' = [pc EXCEPT ![t] = "run_pool_query"]
    /\ UNCHANGED <<activeConnections, config, op, arg, outcome>>
    /\ LocalsOf(t, cs[t], None, NewClient, query[t])
    /\ Collect(sweptHeap, [sweptClients EXCEPT ![NewClient] = PoolClient(arg[t])])

\* What the run reports for the result r: the table of its rows, the
\* "no columns were returned" message, or the row-count / command summary.
reported(dbType, r) ==
    IF dbType = "sqlite"
    THEN IF r.rows # NoRows THEN "table" ELSE "no_columns"
    ELSE IF r.tabular THEN "table" ELSE "summary"

\* A result handling that keeps the first result it retained.
retained_first(dbType, r, last) ==
    IF last # NoLastResult THEN last
    ELSE [rows |-> r.rows, fields |-> r.tabular]

\* What lastQueryResult is after the result r of a successful statement has
\* been handled.  SQLite hands back a row array for every statement and the
\* column names are taken from its first row; MySQL and PostgreSQL retain a
\* row set with its fields and return early on anything else.
retained(dbType, r, last) ==
    IF dbType = "sqlite"
    THEN [rows |-> r.rows, fields |-> r.rows # NoRows]
    ELSE IF r.tabular THEN [rows |-> r.rows, fields |-> TRUE]
    ELSE last

\* A count that is incremented whatever the state is in.
counted_always(h, o) == [h EXCEPT ![o].uncommittedQueries = @ + 1]

\* if (connectionState.inTransaction) connectionState.uncommittedQueries++
counted(h, o) ==
    IF h[o].inTransaction THEN [h EXCEPT ![o].uncommittedQueries = @ + 1] ELSE h

\* The statement succeeded: the pool client of the not-in-transaction
\* PostgreSQL path is released, the count is incremented if the local
\* connectionState is in a transaction, and the setActiveConnection command
\* is executed with the id of the run.
run_resolve(t, r) ==
    /\ pc[t] \in {"run_query", "run_pool_query"}
    /\ heap[cs[t]].inTransaction => heap[cs[t]].uncommittedQueries < MaxUncommitted
    /\ activeConnection' = arg[t]
    /\ pc' = [pc EXCEPT ![t] = "done"]
    /\ outcome' = [outcome EXCEPT ![t] = "ok"]
    /\ UNCHANGED <<activeConnections, connections, op, arg>>
    /\ cs' = [cs EXCEPT ![t] = None]
    /\ txs' = [txs EXCEPT ![t] = None]
    /\ cl' = [cl EXCEPT ![t] = None]
    /\ query' = [query EXCEPT ![t] = [NoQuery EXCEPT !.result = r]]
    /\ lastQueryResult' = retained(connections[arg[t]], r, lastQueryResult)
    /\ Sweep(counted(sweptHeap, cs[t]),
               IF pc[t] = "run_pool_query" THEN Release(sweptClients, cl[t]) ELSE sweptClients)

\* The statement (or the pool checkout) failed: the pool client, if any, is
\* released, then the catch block runs.
run_reject(t) ==
    /\ pc[t] \in {"run_query", "run_pool_query", "run_pool_connect", "run_rejecting"}
    /\ UNCHANGED <<activeConnections, config, op, arg>>
    /\ run_catch(t, cs[t],
                 IF pc[t] = "run_pool_query" THEN Release(sweptClients, cl[t]) ELSE sweptClients)

\* ------------------------------------------------------------ tree view
\* getChildren of a connection or schema node -> getPostgresSchemas,
\* getPostgresTables, getMysqlTables or getSqliteTables, up to the first
\* await.  An id that is not connected lists nothing.  The statement goes
\* on the handle getClient(id) returns; a Pool (PostgreSQL without a stored
\* transaction client) is first asked for a client.
browse_call(t, id) ==
    LET client == getClient(id) IN
    /\ pc[t] = "idle"
    /\ op' = [op EXCEPT ![t] = "browse"]
    /\ arg' = [arg EXCEPT ![t] = id]
    /\ UNCHANGED <<activeConnections, config>>
    /\ IF client[1] = "none"
       THEN /\ pc' = [pc EXCEPT ![t] = "done"]
            /\ outcome' = [outcome EXCEPT ![t] = "ok"]
            /\ Locals(t, None, None, None)
       ELSE /\ pc' = [pc EXCEPT ![t] =
                        IF connections[id] = "postgresql" /\ client[1] = "main"
                        THEN "browse_pool_connect" ELSE "browse_query"]
            /\ outcome' = [outcome EXCEPT ![t] = "none"]
            /\ Locals(t, IF client[1] = "main" THEN client[2] ELSE None, None,
                         IF client[1] = "tx" THEN client[2] ELSE None)
    /\ Collect(sweptHeap, sweptClients)

\* client.connect() of the tree view resolved: the listing statement is sent
\* on the client checked out.
browse_pool_connected(t) ==
    /\ pc[t] = "browse_pool_connect"
    /\ HasFreeClient
    /\ pc' = [pc EXCEPT ![t] = "browse_pool_query"]
    /\ UNCHANGED <<activeConnections, config, op, arg, outcome>>
    /\ Locals(t, cs[t], None, NewClient)
    /\ Collect(sweptHeap, [sweptClients EXCEPT ![NewClient] = PoolClient(arg[t])])

\* The listing statement resolved (ok = TRUE) or it, or the checkout,
\* rejected: a client taken from the pool is released in the finally block.
browse_end(t, ok) ==
    /\ pc[t] \in {"browse_query", "browse_pool_query"} \cup
                 (IF ok THEN {} ELSE {"browse_pool_connect"})
    /\ pc' = [pc EXCEPT ![t] = "done"]
    /\ outcome' = [outcome EXCEPT ![t] = IF ok THEN "ok" ELSE "error"]
    /\ UNCHANGED <<activeConnections, config, op, arg>>
    /\ Locals(t, None, None, None)
    /\ Collect(sweptHeap,
               IF pc[t] = "browse_pool_query" THEN Release(sweptClients, cl[t])
               ELSE sweptClients)

\* ------------------------------------------------------------ settings
\* The sql-runner.setActiveConnection command, the panel's message, or the
\* user's edit of the setting, which may also clear it.
setActiveConnection(id) ==
    /\ Running
    /\ activeConnection' = id
    /\ UNCHANGED <<activeConnections, connections, locals>>
    /\ Collect(sweptHeap, sweptClients)

\* ------------------------------------------------------------- return
\* The caller has received the result.
Return(t) ==
    /\ pc[t] = "done"
    /\ op' = [op EXCEPT ![t] = "none"]
    /\ pc' = [pc EXCEPT ![t] = "idle"]
    /\ arg' = [arg EXCEPT ![t] = None]
    /\ cs' = [cs EXCEPT ![t] = None]
    /\ txs' = [txs EXCEPT ![t] = None]
    /\ cl' = [cl EXCEPT ![t] = None]
    /\ query' = [query EXCEPT ![t] = NoQuery]
    /\ outcome' = [outcome EXCEPT ![t] = "none"]
    /\ UNCHANGED <<activeConnections, config>>
    /\ Collect(sweptHeap, sweptClients)

Next ==
    \/ \E t \in Ready, id \in Ids : connect_call(t, id)
    \/ \E t \in Ready : connect_resolve(t)
    \/ \E t \in Ready : connect_reject(t)
    \/ \E t \in Ready, id \in Ids : disconnect_call(t, id)
    \/ \E t \in Ready : disconnect_resolve(t)
    \/ \E t \in Ready : disconnect_reject(t)
    \/ \E S \in SUBSET Ids : \E f \in [S -> Tasks] : disconnectAll(f)
    \/ \E t \in Tasks : disconnect_started(t)
    \/ \E t \in Ready, id \in Ids : beginTransaction_call(t, id)
    \/ \E t \in Ready : beginTransaction_connected(t)
    \/ \E t \in Ready : beginTransaction_resolve(t)
    \/ \E t \in Ready : beginTransaction_reject(t)
    \/ \E t \in Ready, id \in Ids : commitTransaction_call(t, id)
    \/ \E t \in Ready, id \in Ids : rollbackTransaction_call(t, id)
    \/ \E t \in Ready, throws \in BOOLEAN : endTransaction_resolve(t, throws)
    \/ \E t \in Ready : endTransaction_reject(t)
    \/ \E t \in Ready, q \in Queries, mode \in AutoCommitModes : run_call(t, q, mode)
    \/ \E t \in Ready : run_not_live(t)
    \/ \E t \in Tasks : run_policy(t)
    \/ \E t \in Tasks : run_begun(t)
    \/ \E t \in Ready : run_begin_reject(t)
    \/ \E t \in Ready : run_pool_connected(t)
    \/ \E t \in Ready, r \in NonTabular : run_resolve(t, r)
    \/ \E t \in Ready : run_reject(t)
    \/ \E t \in Ready, id \in Ids : browse_call(t, id)
    \/ \E t \in Ready : browse_pool_connected(t)
    \/ \E t \in Ready, ok \in BOOLEAN : browse_end(t, ok)
    \/ \E id \in Ids \cup {None} : setActiveConnection(id)
    \/ \E t \in Tasks : Return(t)

Spec == Init /\ [][Next]_vars

\* ------------------------------------------------------------ shutdown
\* The registry with several profiles, up to the deactivation of the
\* extension: connections are made, transactions begun, and disconnectAll
\* is the only way a connection is closed.
InitShutdown ==
    /\ activeConnections = [i \in ShutdownIds |-> None]
    /\ heap = [o \in Objs |-> Free]
    /\ clients = [k \in Clients |-> Free]
    /\ lastQueryResult = NoLastResult
    /\ sent = NoText
    /\ written = NoFile
    /\ shown = NoRaw
    /\ connections \in [ShutdownIds -> DbTypes]
    /\ activeConnection = None
    /\ op = [t \in Tasks |-> "none"]
    /\ pc = [t \in Tasks |-> "idle"]
    /\ arg = [t \in Tasks |-> None]
    /\ cs = [t \in Tasks |-> None]
    /\ txs = [t \in Tasks |-> None]
    /\ cl = [t \in Tasks |-> None]
    /\ query = [t \in Tasks |-> NoQuery]
    /\ outcome = [t \in Tasks |-> "none"]

NextShutdown ==
    \/ \E t \in Ready, id \in ShutdownIds : connect_call(t, id)
    \/ \E t \in Ready : connect_resolve(t)
    \/ \E t \in Ready : connect_reject(t)
    \/ \E t \in Ready, id \in ShutdownIds : beginTransaction_call(t, id)
    \/ \E t \in Ready : beginTransaction_connected(t)
    \/ \E t \in Ready : beginTransaction_resolve(t)
    \/ \E t \in Ready : beginTransaction_reject(t)
    \/ \E S \in SUBSET ShutdownIds : \E f \in [S -> Tasks] : disconnectAll(f)
    \/ \E t \in Tasks : disconnect_started(t)
    \/ \E t \in Ready : disconnect_resolve(t)
    \/ \E t \in Ready : disconnect_reject(t)
    \/ \E t \in Tasks : Return(t)

SpecShutdown == InitShutdown /\ [][NextShutdown]_vars

\* ------------------------------------------------------ profile deletion
\* The panel's deleteConnection message: the profile is filtered out of the
\* connections setting and disconnect(id) is called, its promise dropped;
\* the handler goes on without awaiting it.
deleteConnection(t, id) ==
    /\ pc[t] = "idle"
    /\ connections[id] # "none"
    /\ op' = [op EXCEPT ![t] = "disconnect"]
    /\ arg' = [arg EXCEPT ![t] = id]
    /\ connections' = [connections EXCEPT ![id] = "none"]
    /\ UNCHANGED activeConnection
    /\ disconnect_enter(t, id)

\* The registry while profiles are connected and deleted: connect is
\* offered for the profiles listed, a deleted profile has no tree node or
\* command left.
NextDelete ==
    \/ \E t \in Ready, id \in {i \in Ids : connections[i] # "none"} : connect_call(t, id)
    \/ \E t \in Ready : connect_resolve(t)
    \/ \E t \in Ready : connect_reject(t)
    \/ \E t \in Ready, id \in {i \in Ids : connections[i] # "none"} :
            beginTransaction_call(t, id)
    \/ \E t \in Ready : beginTransaction_connected(t)
    \/ \E t \in Ready : beginTransaction_resolve(t)
    \/ \E t \in Ready : beginTransaction_reject(t)
    \/ \E t \in Ready, id \in Ids : deleteConnection(t, id)
    \/ \E t \in Ready : disconnect_resolve(t)
    \/ \E t \in Ready : disconnect_reject(t)
    \/ \E t \in Tasks : Return(t)

\* Every awaited backend call settles, and a caller receives its result.
Settles(t) ==
    \/ connect_resolve(t) \/ connect_reject(t)
    \/ beginTransaction_connected(t) \/ beginTransaction_resolve(t)
    \/ beginTransaction_reject(t)
    \/ disconnect_resolve(t) \/ disconnect_reject(t)
    \/ Return(t)

SpecDelete ==
    Init /\ [][NextDelete]_vars /\ \A t \in Tasks : WF_vars(Settles(t))

\* -------------------------------------------------------------- results
\* Runs under auto-commit 'auto' with every result a backend may return:
\* what is retained of them.
NextResults ==
    \/ \E t \in Ready, id \in Ids : connect_call(t, id)
    \/ \E t \in Ready : connect_resolve(t)
    \/ \E t \in Ready : connect_reject(t)
    \/ \E id \in Ids \cup {None} : setActiveConnection(id)
    \/ \E t \in Ready, q \in Queries : run_call(t, q, "auto")
    \/ \E t \in Ready : run_not_live(t)
    \/ \E t \in Tasks : run_policy(t)
    \/ \E t \in Ready : run_pool_connected(t)
    \/ \E t \in Ready, r \in Results : run_resolve(t, r)
    \/ \E t \in Ready : run_reject(t)
    \/ \E t \in Tasks : Return(t)

SpecResults == Init /\ [][NextResults]_vars

\* ------------------------------------------------------ two connections
\* Two profiles side by side: each is connected, made active, has
\* transactions begun on it and statements run under auto-commit 'auto'.
NextPair ==
    \/ \E t \in Ready, id \in ShutdownIds : connect_call(t, id)
    \/ \E t \in Ready : connect_resolve(t)
    \/ \E id \in ShutdownIds : setActiveConnection(id)
    \/ \E t \in Ready, id \in ShutdownIds : beginTransaction_call(t, id)
    \/ \E t \in Ready : beginTransaction_connected(t)
    \/ \E t \in Ready : beginTransaction_resolve(t)
    \/ \E t \in Ready, q \in Queries : run_call(t, q, "auto")
    \/ \E t \in Ready : run_not_live(t)
    \/ \E t \in Tasks : run_policy(t)
    \/ \E t \in Ready : run_pool_connected(t)
    \/ \E t \in Ready, r \in NonTabular : run_resolve(t, r)
    \/ \E t \in Ready : run_reject(t)
    \/ \E t \in Ready, throws \in BOOLEAN : endTransaction_resolve(t, throws)
    \/ \E t \in Ready : endTransaction_reject(t)
    \/ \E t \in Tasks : Return(t)

SpecPair == InitShutdown /\ [][NextPair]_vars

\* ================================================================ claims
\* The backend handles of connection id on which a transaction is open: BEGIN
\* was issued and neither COMMIT nor ROLLBACK has completed.  For PostgreSQL
\* these are pool clients, for MySQL and SQLite the main handle.
openTransactions(id) ==
    {<<"client", k>> : k \in {j \in Clients :
        clients[j] # Free /\ clients[j].id = id /\ clients[j].tx}}
    \cup
    {<<"main", o>> : o \in {p \in Objs :
        heap[p] # Free /\ heap[p].id = id /\ heap[p].mainTx}}

\* A step that leaves the registry as it is, changes no DbClient and no pool
\* client, and creates none.
Untouched ==
    /\ activeConnections' = activeConnections
    /\ \A o \in Objs : heap'[o] # Free => heap'[o] = heap[o]
    /\ \A k \in Clients : clients'[k] # Free => clients'[k] = clients[k]

\* C1: for every connection id, at most one backend handle has an open
\* transaction, in every reachable state (overlapping begins included).
C1_AtMostOneOpenTransaction ==
    \A id \in Ids : Cardinality(openTransactions(id)) <= 1

\* C2: in every reachable state, a DbClient stored in the registry has a
\* transaction client if and only if it is a PostgreSQL connection that is
\* inTransaction.
C2_TransactionClientIffPgInTransaction ==
    \A id \in Ids :
        LET o == activeConnections[id] IN
        o # None =>
            (heap[o].transactionClient # None
                <=> (heap[o].dbType = "postgresql" /\ heap[o].inTransaction))

\* C3: no pool client is released to its pool more than once, in any
\* interleaving of commit, rollback and disconnect.
C3_ReleasedAtMostOnce ==
    \A k \in Clients : clients[k] # Free => clients[k].released <= 1

\* C4: a connect call that finds the id registered returns the registered
\* DbClient at once, changes none of its fields, opens no handle and creates
\* no object; the connect that registered it returned that same object.
C4_ConnectIdempotent ==
    [][\A t \in Tasks :
        /\ (pc[t] = "idle" /\ op'[t] = "connect"
                /\ activeConnections[arg'[t]] # None) =>
            /\ pc'[t] = "done"
            /\ outcome'[t] = "ok"
            /\ cs'[t] = activeConnections[arg'[t]]
            /\ heap'[cs'[t]] = heap[cs'[t]]
            /\ Untouched
        /\ (pc[t] = "connect_await" /\ outcome'[t] = "ok") =>
            /\ cs'[t] = cs[t]
            /\ activeConnections'[arg[t]] = cs[t]
      ]_vars

\* Reached: a connect on an id whose connection is in a transaction with
\* uncommitted statements has returned that connection, still so.
C4_Witness ==
    \E t \in Tasks :
        /\ pc[t] = "done" /\ op[t] = "connect" /\ outcome[t] = "ok"
        /\ cs[t] # None
        /\ cs[t] = activeConnections[arg[t]]
        /\ heap[cs[t]].inTransaction
        /\ heap[cs[t]].uncommittedQueries > 0
        /\ heap[cs[t]].mainClient = "open"

\* C5: every open main handle is the one of the DbClient registered for its
\* id, so there is at most one per id (overlapping connects included).
C5_OpenMainHandleIsRegistered ==
    \A o \in Objs :
        (heap[o] # Free /\ heap[o].mainClient = "open")
            => activeConnections[heap[o].id] = o

\* C6: a connect whose backend step fails ends with the error and leaves the
\* registry as it was; only a connect that succeeds registers its state.
C6_ConnectFailureStoresNothing ==
    [][\A t \in Tasks :
        (pc[t] = "connect_await" /\ pc'[t] = "done") =>
            \/ /\ outcome'[t] = "ok"
               /\ activeConnections'[arg[t]] = cs[t]
            \/ /\ outcome'[t] = "error"
               /\ activeConnections' = activeConnections
      ]_vars

\* Reached: a connect has failed and its id has no entry.
C6_Witness ==
    \E t \in Tasks :
        /\ pc[t] = "done" /\ op[t] = "connect" /\ outcome[t] = "error"
        /\ getConnectionState(arg[t]) = None

C8_GuardedNoOps ==
    [][\A t \in Tasks :
        LET o == activeConnections[arg'[t]] IN
        /\ (pc[t] = "idle" /\ op'[t] = "begin"
                /\ (o = None \/ heap[o].inTransaction)) =>
            (pc'[t] = "done" /\ outcome'[t] = "ok" /\ Untouched)
        /\ (pc[t] = "idle" /\ op'[t] \in {"commit", "rollback"}
                /\ (o = None \/ ~heap[o].inTransaction)) =>
            (pc'[t] = "done" /\ outcome'[t] = "ok" /\ Untouched)
      ]_vars

\* Reached: a beginTransaction has returned on a connection that is in a
\* transaction with uncommitted statements (a begin that ran would have
\* reset the count).
C8_Witness ==
    \E t \in Tasks :
        /\ pc[t] = "done" /\ op[t] = "begin" /\ outcome[t] = "ok"
        /\ activeConnections[arg[t]] # None
        /\ heap[activeConnections[arg[t]]].inTransaction
        /\ heap[activeConnections[arg[t]]].uncommittedQueries > 0

\* Invocation t completes a beginTransaction (a commit or rollback) on
\* DbClient o successfully in this step.
SuccessfulBegin(t, o) ==
    /\ pc[t] = "begin_begin" /\ txs[t] = o
    /\ \/ op[t] = "begin" /\ outcome'[t] = "ok"
       \/ pc'[t] = "run_begun"

SuccessfulEnd(t, o) ==
    /\ pc[t] \in {"commit_await", "rollback_await"} /\ txs[t] = o
    /\ outcome'[t] \in {"ok", "failed_rolled_back"}

\* C9: a DbClient goes from Idle to InTransaction only by a successful
\* begin and back only by a successful commit or rollback; a successful
\* begin leaves inTransaction true, the count 0 and (PostgreSQL) the
\* dedicated client stored; a successful commit or rollback leaves
\* inTransaction false, the count 0 and no dedicated client; a newly
\* registered DbClient is Idle with count 0.
C9_TransactionStateMachine ==
    [][/\ \A o \in Objs :
            (heap[o] # Free /\ ~GarbageObj(o) /\ heap'[o] # Free) =>
                /\ (~heap[o].inTransaction /\ heap'[o].inTransaction)
                        => \E t \in Tasks : SuccessfulBegin(t, o)
                /\ (heap[o].inTransaction /\ ~heap'[o].inTransaction)
                        => \E t \in Tasks : SuccessfulEnd(t, o)
       /\ \A t \in Tasks, o \in Objs :
            /\ (SuccessfulBegin(t, o) /\ heap'[o] # Free) =>
                /\ heap'[o].inTransaction
                /\ heap'[o].uncommittedQueries = 0
                /\ heap[o].dbType = "postgresql" =>
                        (cl[t] # None /\ heap'[o].transactionClient = cl[t])
            /\ (SuccessfulEnd(t, o) /\ heap'[o] # Free) =>
                /\ ~heap'[o].inTransaction
                /\ heap'[o].uncommittedQueries = 0
                /\ heap'[o].transactionClient = None
       /\ \A id \in Ids :
            (activeConnections'[id] # activeConnections[id]
                    /\ activeConnections'[id] # None) =>
                /\ ~heap'[activeConnections'[id]].inTransaction
                /\ heap'[activeConnections'[id]].uncommittedQueries = 0
                /\ heap'[activeConnections'[id]].transactionClient = None
      ]_vars

\* Reached: a beginTransaction has succeeded on a PostgreSQL connection,
\* which is now InTransaction with its dedicated client and count 0.
C9_Witness ==
    \E t \in Tasks :
        /\ pc[t] = "done" /\ op[t] = "begin" /\ outcome[t] = "ok"
        /\ activeConnections[arg[t]] # None
        /\ LET o == activeConnections[arg[t]] IN
           /\ heap[o].dbType = "postgresql"
           /\ heap[o].inTransaction
           /\ heap[o].uncommittedQueries = 0
           /\ heap[o].transactionClient # None
           /\ clients[heap[o].transactionClient].tx

\* C10: a commit or rollback whose statement fails ends with the failure
\* and leaves inTransaction and the count of its DbClient as they were;
\* only one that ends well leaves the DbClient Idle.
C10_EndFailureKeepsState ==
    [][\A t \in Tasks :
        (pc[t] \in {"commit_await", "rollback_await"} /\ pc'[t] = "done") =>
            LET o == txs[t] IN
            \/ /\ outcome'[t] = OutcomeReturn(op[t], "end")
               /\ heap'[o] # Free => ~heap'[o].inTransaction
            \/ /\ outcome'[t] = OutcomeThrow(op[t])
               /\ heap'[o] # Free =>
                    /\ heap'[o].inTransaction = heap[o].inTransaction
                    /\ heap'[o].uncommittedQueries = heap[o].uncommittedQueries
      ]_vars

\* Reached: a commit or rollback has failed on a PostgreSQL connection that
\* is still InTransaction, with its count and its checked-out client.
C10_Witness ==
    \E t \in Tasks :
        /\ pc[t] = "done" /\ op[t] \in {"commit", "rollback"}
        /\ outcome[t] = "error"
        /\ activeConnections[arg[t]] # None
        /\ LET o == activeConnections[arg[t]] IN
           /\ heap[o].dbType = "postgresql"
           /\ heap[o].inTransaction
           /\ heap[o].uncommittedQueries > 0
           /\ heap[o].transactionClient # None
           /\ clients[heap[o].transactionClient].released = 0

\* C11: for PostgreSQL, when a commitTransaction or rollbackTransaction
\* ends, whether its statement succeeded or failed, the pool client of the
\* transaction has been released to its pool.
C11_ClientReleasedAfterEnd ==
    [][\A t \in Tasks :
        (pc[t] \in {"commit_await", "rollback_await"} /\ pc'[t] = "done"
                /\ cl[t] # None) =>
            (clients'[cl[t]] = Free \/ clients'[cl[t]].released >= 1)
      ]_vars

\* Invocation t is a run at its policy decision, with the setting mode.
AtPolicy(t, mode) == pc[t] = "run_resolved" /\ query[t].autoCommit = mode

\* The policy step of t awaits beginTransaction on the run's connection:
\* the statement is not dispatched in this step.
Begins(t) ==
    /\ pc'[t] \in {"begin_connect", "begin_begin"}
    /\ txs'[t] = cs[t]
    /\ Untouched

\* The policy step of t calls no beginTransaction and changes no state.
BeginsNot(t) ==
    /\ pc'[t] \notin {"begin_connect", "begin_begin", "run_begun"}
    /\ txs'[t] = None
    /\ Untouched

\* The statement of run t, whose connectionState is Idle, ends (well or
\* not) in this step.
EndsIdle(t) ==
    /\ op[t] = "run"
    /\ pc[t] \in {"run_query", "run_pool_connect", "run_pool_query", "run_rejecting"}
    /\ pc'[t] = "done"
    /\ ~heap[cs[t]].inTransaction

\* C12: under auto a run calls no beginTransaction, whatever the statement;
\* a run that ends on an Idle connection, well or not, leaves it Idle with
\* its count unchanged and issues no rollback; and the count of an Idle
\* connection is 0.
C12_AutoNeverOpensTransaction ==
    [][/\ \A t \in Tasks :
            /\ AtPolicy(t, "auto") => BeginsNot(t)
            /\ EndsIdle(t) =>
                /\ outcome'[t] \in {"ok", "failed"}
                /\ txs'[t] = None
                /\ heap'[cs[t]] # Free =>
                    /\ ~heap'[cs[t]].inTransaction
                    /\ heap'[cs[t]].uncommittedQueries = 0
       /\ \A o \in Objs :
            (heap'[o] # Free /\ ~heap'[o].inTransaction)
                => heap'[o].uncommittedQueries = 0
      ]_vars

\* Reached: a run of a non-SELECT statement under auto, on an Idle
\* connection, is at its policy decision.
C12_Witness ==
    \E t \in Tasks :
        /\ AtPolicy(t, "auto")
        /\ query[t].select = "other"
        /\ ~heap[cs[t]].inTransaction
        /\ heap[cs[t]].mainClient = "open"

\* C13: under off a run on an Idle connection awaits beginTransaction on it
\* before anything is dispatched; when the run resumes, that connection is
\* InTransaction and, if it is still the registered one, the statement is
\* sent inside the transaction; and a statement that succeeds on a
\* connection that is InTransaction adds exactly 1 to its count.
C13_OffOpensTransactionFirst ==
    [][\A t \in Tasks :
        /\ (AtPolicy(t, "off") /\ ~heap[cs[t]].inTransaction) => Begins(t)
        /\ pc'[t] = "run_begun" => heap'[cs'[t]].inTransaction
        /\ (pc[t] = "run_begun" /\ pc'[t] # pc[t]
                /\ activeConnections[arg[t]] = cs[t]) =>
            /\ pc'[t] = "run_query"
            /\ cs'[t] = cs[t]
            /\ Untouched
        /\ (pc[t] \in {"run_query", "run_pool_query"} /\ outcome'[t] = "ok"
                /\ heap[cs[t]].inTransaction /\ heap'[cs[t]] # Free) =>
            heap'[cs[t]].uncommittedQueries = heap[cs[t]].uncommittedQueries + 1
      ]_vars

\* Reached: a run has ended well on a connection that is InTransaction and
\* now counts two statements.
C13_Witness ==
    \E t \in Tasks :
        /\ pc[t] = "done" /\ op[t] = "run" /\ outcome[t] = "ok"
        /\ activeConnections[arg[t]] # None
        /\ heap[activeConnections[arg[t]]].inTransaction
        /\ heap[activeConnections[arg[t]]].uncommittedQueries = 2

FailsInTransaction(t) ==
    /\ op[t] = "run"
    /\ pc[t] = "run_query"
    /\ pc'[t] # pc[t] /\ outcome'[t] # "ok"
    /\ activeConnections[arg[t]] = cs[t]
    /\ heap[cs[t]].inTransaction
    /\ heap[cs[t]].dbType = "postgresql" => heap[cs[t]].transactionClient # None

\* C15: a run whose statement fails on a connection with an open
\* transaction issues rollbackTransaction on that connection; when the
\* ROLLBACK succeeds the connection is Idle with count 0 and no dedicated
\* client, the client is back in its pool, and the failure is reported
\* together with the rollback.
C15_FailureRollsBack ==
    [][\A t \in Tasks :
        /\ FailsInTransaction(t) =>
            (pc'[t] = "rollback_await" /\ txs'[t] = cs[t])
        /\ (op[t] = "run" /\ SuccessfulEnd(t, txs[t])) =>
            /\ outcome'[t] = "failed_rolled_back"
            /\ heap'[txs[t]] # Free =>
                /\ ~heap'[txs[t]].inTransaction
                /\ heap'[txs[t]].uncommittedQueries = 0
                /\ heap'[txs[t]].transactionClient = None
            /\ cl[t] # None =>
                (clients'[cl[t]] = Free \/ clients'[cl[t]].released >= 1)
      ]_vars

\* Run t fails in this step: its statement, its pool checkout, its
\* beginTransaction or its dispatch throws into the catch block.
Fails(t) ==
    /\ op[t] = "run"
    /\ pc[t] \in {"run_resolved", "run_begun", "begin_connect", "begin_begin",
                  "run_query", "run_pool_connect", "run_pool_query", "run_rejecting"}
    /\ \/ pc'[t] = "rollback_await"
       \/ pc'[t] = "done" /\ outcome'[t] # "ok"

\* The connectionState run t holds when it fails: fetched again after its
\* own beginTransaction.
HeldState(t) == IF pc[t] = "run_begun" THEN getConnectionState(arg[t]) ELSE cs[t]

\* The catch block of run t called rollbackTransaction in this step.
RollsBack(t) ==
    \/ pc'[t] = "rollback_await"
    \/ pc'[t] = "done" /\ outcome'[t] \in {"failed_rolled_back", "failed_rollback_threw"}

\* Run t found its connection Idle when it was invoked and opened the
\* transaction itself.
OpenedByRun(t) == query[t].opened

surfaced(o) ==
    CASE o = "failed" -> {"query"}
      [] o = "failed_rolled_back" -> {"query", "rolled_back"}
      [] o = "failed_rollback_threw" -> {"rollback"}
      [] OTHER -> {}

\* The run's promise resolves (the catch block ran to its end).
completes(o) == o \in {"ok", "failed", "failed_rolled_back"}

\* C17: when the rollback issued by the catch block of a failed run fails
\* too, the user is shown both the query failure and the rollback failure
\* and the run completes.
C17_BothFailuresSurfaced ==
    [][\A t \in Tasks :
        (/\ op[t] = "run" /\ pc[t] = "rollback_await"
         /\ pc'[t] = "done" /\ ~SuccessfulEnd(t, txs[t])) =>
            /\ {"query", "rollback"} \subseteq surfaced(outcome'[t])
            /\ completes(outcome'[t])
      ]_vars

\* The state registered for id is in a transaction.
InTransaction(id) ==
    activeConnections[id] # None /\ heap[activeConnections[id]].inTransaction

\* Invocation t issues a statement for its id in this step: a run
\* dispatches, or the tree view starts a listing.
Issues(t) ==
    \/ /\ op[t] = "run" /\ pc[t] \in {"run_resolved", "run_begun"}
       /\ pc'[t] \in {"run_query", "run_pool_connect", "run_rejecting"}
    \/ /\ pc[t] = "idle" /\ op'[t] = "browse" /\ pc'[t] # "done"

\* Invocation t gets a fresh client from the pool in this step.
ChecksOut(t) ==
    /\ pc[t] \in {"run_pool_connect", "browse_pool_connect"}
    /\ pc'[t] \in {"run_pool_query", "browse_pool_query"}

\* C18: while the state registered for an id is inTransaction, a statement
\* issued for the id (by a run or by the tree view) goes on the stored
\* transaction client (PostgreSQL) or on the single main handle (MySQL,
\* SQLite), and no client is checked out of the pool for the id.
C18_StatementsRouteThroughTransaction ==
    [][\A t \in Tasks :
        /\ (Issues(t) /\ InTransaction(arg'[t])) =>
            LET o == activeConnections[arg'[t]] IN
            /\ pc'[t] \in {"run_query", "browse_query"}
            /\ op'[t] = "browse" =>
                IF heap[o].dbType = "postgresql"
                THEN cl'[t] # None /\ cl'[t] = heap[o].transactionClient
                ELSE cl'[t] = None
        /\ ChecksOut(t) => ~InTransaction(arg[t])
      ]_vars

\* The entry registered for id is half torn down: its main handle is not
\* open any more, or (PostgreSQL, inTransaction) its transaction client has
\* been released and cleared.
HalfTornDown(ac, h, id) ==
    /\ ac[id] # None
    /\ \/ h[ac[id]].mainClient # "open"
       \/ /\ h[ac[id]].dbType = "postgresql"
          /\ h[ac[id]].inTransaction
          /\ h[ac[id]].transactionClient = None

\* C19: disconnect(id) of an id that is not connected changes nothing; any
\* disconnect ends without throwing, and when it has ended the registry
\* holds no half-torn-down entry for id.
C19_DisconnectNeverLeavesHalfEntry ==
    [][\A t \in Tasks :
        (op'[t] = "disconnect" /\ pc[t] # "done" /\ pc'[t] = "done") =>
            /\ (pc[t] = "idle" /\ activeConnections[arg'[t]] = None) => Untouched
            /\ outcome'[t] = "ok"
            /\ ~HalfTornDown(activeConnections', heap', arg'[t])
      ]_vars

\* The ids with an entry in the registry.
Live == {id \in DOMAIN activeConnections : activeConnections[id] # None}

\* This step is a call of disconnectAll.
DisconnectAllStep ==
    /\ \A t \in Tasks : pc[t] \notin Resuming
    /\ \A t \in Tasks : pc'[t] # pc[t] => (pc[t] = "idle" /\ pc'[t] = "disconnect_start")
    /\ UNCHANGED <<activeConnections, config, outcome>>

\* C20: a call of disconnectAll starts a disconnect for every live
\* connection; a started disconnect runs whatever becomes of the others,
\* closing its handle; a failing disconnect changes no other invocation; and
\* when a started disconnect succeeds the registry holds no entry for its
\* id.
C20_DisconnectAllAttemptsEveryConnection ==
    [][/\ DisconnectAllStep =>
            \A id \in Live : \E t \in Tasks : pc'[t] = "disconnect_start" /\ arg'[t] = id
       /\ \A t \in Tasks :
            /\ (pc[t] = "disconnect_start" /\ pc'[t] # pc[t]) =>
                /\ pc'[t] \in {"disconnect_await", "done"}
                /\ (/\ activeConnections[arg[t]] # None
                    /\ heap'[activeConnections[arg[t]]] # Free) =>
                        heap'[activeConnections[arg[t]]].mainClient # "open"
            /\ (op[t] = "disconnect" /\ pc[t] = "disconnect_await"
                    /\ pc'[t] = "done" /\ outcome'[t] = "error") =>
                \A u \in Tasks \ {t} : pc'[u] = pc[u] /\ op'[u] = op[u] /\ arg'[u] = arg[u]
            /\ (op[t] = "disconnect" /\ pc[t] # "done"
                    /\ pc'[t] = "done" /\ outcome'[t] = "ok") =>
                activeConnections'[arg[t]] = None
      ]_vars

\* After a disconnectAll over two live connections one disconnect has
\* failed, leaving its entry, and the other has completed and its entry is
\* gone.
C20_Witness ==
    \E t \in Tasks, j \in DOMAIN activeConnections :
        /\ op[t] = "disconnect" /\ pc[t] = "done" /\ outcome[t] = "ok"
        /\ activeConnections[arg[t]] = None
        /\ j # arg[t]
        /\ activeConnections[j] # None
        /\ heap[activeConnections[j]].mainClient = "ending"
        /\ \A u \in Tasks : ~(op[u] = "disconnect" /\ arg[u] = j /\ pc[u] # "done")

\* The connectionState a disconnect works on in this step.
DisconnectState(t) ==
    IF pc[t] = "disconnect_await" THEN cs[t] ELSE activeConnections[arg'[t]]

\* C21: disconnect abandons an open transaction: no step of a disconnect
\* sends COMMIT or ROLLBACK (it never awaits one), and it leaves
\* inTransaction and the uncommitted count of the state as they were.
C21_DisconnectAbandonsTransaction ==
    [][\A t \in Tasks :
        (op'[t] = "disconnect" /\ pc'[t] # pc[t] /\ pc[t] # "done") =>
            /\ pc'[t] \notin {"commit_await", "rollback_await"}
            /\ LET o == DisconnectState(t) IN
               (pc'[t] # "disconnect_start" /\ o # None /\ heap'[o] # Free) =>
                    /\ heap'[o].inTransaction = heap[o].inTransaction
                    /\ heap'[o].uncommittedQueries = heap[o].uncommittedQueries
      ]_vars

\* A disconnect has released the transaction client of a connection with
\* counted statements and awaits end(): the state is still InTransaction.
C21_Witness ==
    \E t \in Tasks :
        /\ op[t] = "disconnect" /\ pc[t] = "disconnect_await"
        /\ heap[cs[t]].inTransaction
        /\ heap[cs[t]].uncommittedQueries > 0
        /\ heap[cs[t]].dbType = "postgresql"
        /\ heap[cs[t]].transactionClient = None

\* C22: the registry gets a state for an id only when a connect call for
\* the id resolves, and once the profile of an id has been deleted the
\* registry eventually holds no state for the id.
C22_DeletedProfileIsTornDown ==
    /\ [][\A id \in Ids :
            (activeConnections'[id] # None
                    /\ activeConnections'[id] # activeConnections[id]) =>
                \E t \in Tasks :
                    /\ op[t] = "connect" /\ pc[t] = "connect_await" /\ arg[t] = id
                    /\ pc'[t] = "done" /\ outcome'[t] = "ok"
         ]_vars
    /\ \A id \in Ids :
            (connections[id] = "none") ~> (activeConnections[id] = None)

\* Run t completes successfully in this step; query'[t].result is the
\* result it was given.
RunSucceeds(t) ==
    op[t] = "run" /\ pc[t] # "done" /\ pc'[t] = "done" /\ outcome'[t] = "ok"

\* C23: a successful statement that returns no row set retains nothing, on
\* any backend: lastQueryResult is what it was before the run, and the run
\* reports the row-count / command summary.
C23_DmlRetainsNothing ==
    [][\A t \in Tasks :
        (RunSucceeds(t) /\ ~query'[t].result.tabular) =>
            /\ lastQueryResult' = lastQueryResult
            /\ reported(connections[arg[t]], query'[t].result) = "summary"
      ]_vars

\* C24: one result is retained; a successful run that returns a row set
\* leaves exactly its rows (with their columns) retained, whatever was
\* retained before, so of overlapping runs the one completing last is
\* retained.
C24_LastTabularResultRetained ==
    [][\A t \in Tasks :
        (RunSucceeds(t) /\ query'[t].result.tabular) =>
            /\ lastQueryResult'.rows = query'[t].result.rows
            /\ query'[t].result.rows # NoRows => lastQueryResult'.fields
      ]_vars

\* A run has just completed with the rows "b" retained in place of "a",
\* while another run still awaits its statement.
C24_Witness ==
    \E t \in Tasks, u \in Tasks :
        /\ op[t] = "run" /\ pc[t] = "done" /\ outcome[t] = "ok"
        /\ query[t].result = [tabular |-> TRUE, rows |-> "b"]
        /\ lastQueryResult = [rows |-> "b", fields |-> TRUE]
        /\ op[u] = "run" /\ pc[u] \in {"run_query", "run_pool_query"}

\* The state registered for id is the same before and after the step.
SameState(id) ==
    /\ activeConnections'[id] = activeConnections[id]
    /\ activeConnections[id] # None =>
        heap'[activeConnections[id]] = heap[activeConnections[id]]

\* C25: a run on connection A changes the ConnectionState of no other
\* connection B, and the rollback it issues when its statement fails is a
\* rollback of A, whatever is done with B meanwhile (B made the active
\* connection included).
C25_RunsOnDistinctIdsIndependent ==
    [][\A t \in Tasks :
        (op[t] = "run" /\ pc'[t] # pc[t] /\ arg[t] # None) =>
            /\ \A id \in DOMAIN activeConnections : id # arg[t] => SameState(id)
            /\ pc'[t] = "rollback_await" => heap[txs'[t]].id = arg[t]
      ]_vars

\* Run t has sent its statement and has neither its result nor its error.
StatementOutstanding(t) ==
    op[t] = "run" /\ pc[t] \in {"run_query", "run_pool_query"}

\* Run t has a statement or a transaction operation (BEGIN of the policy,
\* ROLLBACK of the catch block) in flight.
OperationOutstanding(t) ==
    op[t] = "run" /\ pc[t] \in {"run_query", "run_pool_query", "begin_connect",
                                "begin_begin", "rollback_await"}

\* C26: while a run on a connection id has a statement outstanding, no other
\* run on the same id has a statement or a transaction operation in flight.
C26_OneStatementPerConnection ==
    \A t \in Tasks, u \in Tasks :
        (t # u /\ StatementOutstanding(t) /\ arg[u] = arg[t]) =>
            ~OperationOutstanding(u)

\* Whether the handler of an invocation of operation o that ends with
\* outcome out refreshes the connections tree: the connect, disconnect,
\* commit and rollback commands do after their await, a run does through
\* the setActiveConnection command it executes after a successful statement.
refreshes(o, out) ==
    \/ o \in {"connect", "disconnect", "commit", "rollback"} /\ out = "ok"
    \/ o = "run" /\ out = "ok"

\* This step changes the registry or the transaction state (inTransaction,
\* the count, the transaction client) of a registered connection.
Mutates ==
    \E id \in DOMAIN activeConnections :
        \/ activeConnections'[id] # activeConnections[id]
        \/ /\ activeConnections[id] # None
           /\ heap'[activeConnections[id]] # Free
           /\ LET o == activeConnections[id] IN
              \/ heap'[o].inTransaction # heap[o].inTransaction
              \/ heap'[o].uncommittedQueries # heap[o].uncommittedQueries
              \/ heap'[o].transactionClient # heap[o].transactionClient

\* C27: an invocation of a command that ends with a step changing the
\* registry or a connection's transaction state (the automatic rollback of
\* a failed run included) goes on to refresh the connections tree.
C27_MutationIsFollowedByRefresh ==
    [][\A t \in Tasks :
        (pc[t] # "done" /\ pc'[t] = "done" /\ op'[t] # "begin" /\ Mutates) =>
            refreshes(op'[t], outcome'[t])
      ]_vars

\* C28: under auto every query is committed automatically: the statement
\* of a run under auto is sent outside any open transaction, on a
\* connection whose uncommitted count is 0, whatever state the connection
\* was in when the run started.
C28_AutoRunsOutsideTransactions ==
    [][\A t \in Tasks :
        (AtPolicy(t, "auto") /\ pc'[t] \in {"run_query", "run_pool_connect"}) =>
            /\ ~heap'[cs'[t]].inTransaction
            /\ heap'[cs'[t]].uncommittedQueries = 0
      ]_vars

\* ------------------------------------------- the text of a statement
\* A statement's text is a sequence of words: keywords in two spellings,
\* another word, a number, white space and the semicolon.
MaxWords == 5
DefaultLimit == 100
Words == {"select", "SELECT", "x", "limit", "LIMIT", "1", " ", ";"}
Texts == UNION {[1..n -> Words] : n \in 0..MaxWords}
Limits == {0, DefaultLimit}

\* String.prototype.toLowerCase
toLowerCase(w) ==
    CASE w = "SELECT" -> "select"
      [] w = "LIMIT" -> "limit"
      [] OTHER -> w

\* String.prototype.trim
trim(q) ==
    LET inked == {i \in 1..Len(q) : q[i] # " "}
    IN  IF inked = {} THEN <<>>
        ELSE SubSeq(q, CHOOSE i \in inked : \A j \in inked : i <= j,
                       CHOOSE i \in inked : \A j \in inked : i >= j)

\* query.trim().toLowerCase().startsWith('select')
startsWithSelect(q) == trim(q) # <<>> /\ toLowerCase(Head(trim(q))) = "select"

\* /limit\s+\d+/i.test(query)
testLimit(q) ==
    \E i \in 1..Len(q), j \in 1..Len(q) :
        /\ toLowerCase(q[i]) = "limit"
        /\ j > i + 1
        /\ \A k \in (i + 1)..(j - 1) : q[k] = " "
        /\ q[j] = "1"

\* ` LIMIT ${defaultLimit}`
limitClause(n) == <<" ", "LIMIT", " ", ToString(n)>>

\* The text runQuery hands on for the text q of the CodeLens range.
limited(q, n) ==
    IF n > 0 /\ startsWithSelect(q) /\ ~testLimit(q)
    THEN LET trimmedQuery == trim(q)
         IN  IF trimmedQuery[Len(trimmedQuery)] = ";"
             THEN SubSeq(trimmedQuery, 1, Len(trimmedQuery) - 1)
                      \o limitClause(n) \o <<";">>
             ELSE trimmedQuery \o limitClause(n)
    ELSE q

\* What the text segments leave alone.
registry == <<activeConnections, heap, clients, lastQueryResult, shown, config, locals>>

\* runQuery(document, range), up to its call of executeAndShowResults.
runQuery ==
    /\ sent.path = "none"
    /\ sent' = [sent EXCEPT !.path = "runQuery",
                            !.query = limited(sent.text, sent.defaultLimit)]
    /\ UNCHANGED <<registry, written>>

\* runSelectedQuery(), up to its call of executeAndShowResults: an empty or
\* blank selection is refused with 'No query selected'.
runSelectedQuery ==
    /\ sent.path = "none"
    /\ trim(sent.text) # <<>>
    /\ sent' = [sent EXCEPT !.path = "runSelectedQuery", !.query = sent.text]
    /\ UNCHANGED <<registry, written>>

\* The editor holds any text and the setting any limit.
InitText ==
    /\ activeConnections = [i \in Ids |-> None]
    /\ heap = [o \in Objs |-> Free]
    /\ clients = [k \in Clients |-> Free]
    /\ lastQueryResult = NoLastResult
    /\ sent \in {[NoText EXCEPT !.text = q, !.defaultLimit = n] :
                    q \in Texts, n \in Limits}
    /\ written = NoFile
    /\ shown = NoRaw
    /\ connections \in [Ids -> DbTypes]
    /\ activeConnection = None
    /\ op = [t \in Tasks |-> "none"]
    /\ pc = [t \in Tasks |-> "idle"]
    /\ arg = [t \in Tasks |-> None]
    /\ cs = [t \in Tasks |-> None]
    /\ txs = [t \in Tasks |-> None]
    /\ cl = [t \in Tasks |-> None]
    /\ query = [t \in Tasks |-> NoQuery]
    /\ outcome = [t \in Tasks |-> "none"]

NextText ==
    \/ runQuery
    \/ runSelectedQuery

SpecText == InitText /\ [][NextText]_vars

\* C29: with a default limit n > 0, a statement that begins with SELECT and
\* has no LIMIT clause, in any letter case, is handed on as its trimmed text
\* with " LIMIT n" put before its trailing semicolon, or at its end if it has
\* none, from the CodeLens and from the selection alike; any other statement,
\* and any statement when n = 0, is handed on as it was written.
SelectLike(q) ==
    \E i \in 1..Len(q) :
        /\ q[i] \in {"select", "SELECT"}
        /\ \A k \in 1..(i - 1) : q[k] = " "
HasLimitClause(q) ==
    \E i \in 1..Len(q), j \in 1..Len(q) :
        /\ q[i] \in {"limit", "LIMIT"}
        /\ j > i + 1
        /\ \A k \in (i + 1)..(j - 1) : q[k] = " "
        /\ q[j] = "1"
WithLimit(q, n) ==
    LET body == trim(q)
        last == Len(body)
    IN  IF body[last] = ";"
        THEN [i \in 1..(last + 4) |->
                 IF i < last THEN body[i]
                 ELSE IF i = last + 4 THEN ";"
                 ELSE limitClause(n)[i - last + 1]]
        ELSE [i \in 1..(last + 4) |->
                 IF i <= last THEN body[i] ELSE limitClause(n)[i - last]]
C29_DefaultLimitOnBothPaths ==
    sent.path # "none" =>
        sent.query =
            IF /\ sent.defaultLimit > 0
               /\ SelectLike(sent.text)
               /\ ~HasLimitClause(sent.text)
            THEN WithLimit(sent.text, sent.defaultLimit)
            ELSE sent.text

\* ------------------------------------------------------------- export
\* For export the retained result is spelled out: rows is a sequence of
\* row-maps over the columns, fields the sequence of their {name}.  A value
\* is null, undefined, a number or a string, and v is its text, letter by
\* letter.
MaxRows == 2
Columns == {"id", "name"}
Null == [type |-> "null", v |-> <<>>]
Undefined == [type |-> "undefined", v |-> <<>>]
Values ==
    {Null, Undefined,
     [type |-> "number", v |-> <<"1">>], [type |-> "number", v |-> <<"2">>],
     [type |-> "string", v |-> <<"a">>],
     [type |-> "string", v |-> <<"a", ",", "b">>],
     [type |-> "string", v |-> <<"a", "\"", "b">>]}
Rows == [Columns -> Values]
Fields == <<[name |-> "id"], [name |-> "name"]>>
Retainable ==
    {NoLastResult, [rows |-> <<>>, fields |-> <<>>]} \cup
    {[rows |-> rs, fields |-> Fields] :
        rs \in UNION {[1..n -> Rows] : n \in 0..MaxRows}}
Formats == {"csv", "json"}

\* Array.prototype.join, on texts
RECURSIVE join(_, _)
join(parts, sep) ==
    IF parts = <<>> THEN <<>>
    ELSE IF Len(parts) = 1 THEN parts[1]
    ELSE parts[1] \o sep \o join(Tail(parts), sep)

\* val.replace(/"/g, '""')
RECURSIVE doubled(_)
doubled(s) ==
    IF s = <<>> THEN <<>>
    ELSE (IF Head(s) = "\"" THEN <<"\"", "\"">> ELSE <<Head(s)>>) \o doubled(Tail(s))

\* A writer of fields that writes null and undefined as String() would.
csvField_asString(val) ==
    IF val.type \in {"null", "undefined"} THEN <<val.type>>
    ELSE IF \E i \in 1..Len(val.v) : val.v[i] \in {"\"", ","}
         THEN <<"\"">> \o doubled(val.v) \o <<"\"">>
         ELSE val.v

\* The inner callback of toCSV: one value as a field.
csvField(val) ==
    IF val.type \in {"null", "undefined"} THEN <<>>
    ELSE IF \E i \in 1..Len(val.v) : val.v[i] \in {"\"", ","}
         THEN <<"\"">> \o doubled(val.v) \o <<"\"">>
         ELSE val.v

\* toCSV(data, columns)
toCSV(data, columns) ==
    LET header == join([c \in 1..Len(columns) |-> <<columns[c]>>], <<",">>) \o <<"\n">>
        body == join([r \in 1..Len(data) |->
                        join([c \in 1..Len(columns) |-> csvField(data[r][columns[c]])],
                             <<",">>)],
                     <<"\n">>)
    IN  header \o body

\* JSON.stringify of one value; a string's quotes are escaped.
RECURSIVE escaped(_)
escaped(s) ==
    IF s = <<>> THEN <<>>
    ELSE (IF Head(s) = "\"" THEN <<"\\", "\"">> ELSE <<Head(s)>>) \o escaped(Tail(s))
jsonValue(val) ==
    CASE val.type = "null" -> <<"null">>
      [] val.type = "number" -> val.v
      [] OTHER -> <<"\"">> \o escaped(val.v) \o <<"\"">>

\* The columns of a row that JSON.stringify writes: undefined is left out.
RECURSIVE defined(_, _)
defined(row, columns) ==
    IF columns = <<>> THEN <<>>
    ELSE (IF row[Head(columns)].type = "undefined" THEN <<>> ELSE <<Head(columns)>>)
             \o defined(row, Tail(columns))

\* JSON.stringify(filteredRows, null, 2), for a row array that is not empty
stringify(data, columns) ==
    LET member(row, col) ==
            <<"    ", "\"", col, "\"", ":", " ">> \o jsonValue(row[col])
        object(row) ==
            LET cols == defined(row, columns)
            IN  IF cols = <<>> THEN <<"  ", "{}">>
                ELSE <<"  ", "{", "\n">>
                     \o join([c \in 1..Len(cols) |-> member(row, cols[c])], <<",", "\n">>)
                     \o <<"\n", "  ", "}">>
    IN  <<"[", "\n">>
        \o join([r \in 1..Len(data) |-> object(data[r])], <<",", "\n">>)
        \o <<"\n", "]">>

\* What the user can tick in the quick pick: the columns at the places S.
RECURSIVE picked(_, _)
picked(columns, S) ==
    IF columns = <<>> THEN <<>>
    ELSE LET n == Len(columns)
             front == picked(SubSeq(columns, 1, n - 1), S)
         IN  IF n \in S THEN Append(front, columns[n]) ELSE front

\* exportLastResult(format): S is what the user ticks of the columns and
\* saved what becomes of the save dialog and of writeFile.
exportLastResult(format, S, saved) ==
    /\ IF lastQueryResult = NoLastResult \/ Len(lastQueryResult.rows) = 0
       THEN written' = [NoFile EXCEPT !.format = format, !.message = "warning"]
       ELSE LET rows == lastQueryResult.rows
                allColumns == [i \in 1..Len(lastQueryResult.fields) |->
                                  lastQueryResult.fields[i].name]
                selectedColumns == picked(allColumns, S)
                filteredRows == [r \in 1..Len(rows) |->
                                    [col \in {selectedColumns[i] : i \in 1..Len(selectedColumns)}
                                        |-> rows[r][col]]]
                content == IF format = "csv"
                           THEN toCSV(filteredRows, selectedColumns)
                           ELSE stringify(filteredRows, selectedColumns)
            IN  written' =
                    IF selectedColumns = <<>> \/ saved = "cancel"
                    THEN [NoFile EXCEPT !.format = format, !.columns = selectedColumns]
                    ELSE IF saved = "ok"
                    THEN [format |-> format, columns |-> selectedColumns,
                          content |-> content, message |-> "success"]
                    ELSE [format |-> format, columns |-> selectedColumns,
                          content |-> <<>>, message |-> "error"]
    /\ UNCHANGED <<registry, sent>>

\* Any result may have been retained when the export command is given.
InitExport ==
    /\ activeConnections = [i \in Ids |-> None]
    /\ heap = [o \in Objs |-> Free]
    /\ clients = [k \in Clients |-> Free]
    /\ lastQueryResult \in Retainable
    /\ sent = NoText
    /\ written = NoFile
    /\ shown = NoRaw
    /\ connections \in [Ids -> DbTypes]
    /\ activeConnection = None
    /\ op = [t \in Tasks |-> "none"]
    /\ pc = [t \in Tasks |-> "idle"]
    /\ arg = [t \in Tasks |-> None]
    /\ cs = [t \in Tasks |-> None]
    /\ txs = [t \in Tasks |-> None]
    /\ cl = [t \in Tasks |-> None]
    /\ query = [t \in Tasks |-> NoQuery]
    /\ outcome = [t \in Tasks |-> "none"]

NextExport ==
    \E format \in Formats, S \in SUBSET (1..2), saved \in {"cancel", "ok", "fail"} :
        exportLastResult(format, S, saved)

SpecExport == InitExport /\ [][NextExport]_vars

\* The result of the example: columns id and name, rows {id: 1, name: 'a'}
\* and {id: 2, name: null}.
ExampleResult ==
    [rows |-> << [id |-> [type |-> "number", v |-> <<"1">>],
                  name |-> [type |-> "string", v |-> <<"a">>]],
                 [id |-> [type |-> "number", v |-> <<"2">>],
                  name |-> Null] >>,
     fields |-> Fields]
ExampleCsv == <<"id", ",", "name", "\n", "1", ",", "a", "\n", "2", ",">>
ExampleJson ==
    <<"[", "\n",
      "  ", "{", "\n",
      "    ", "\"", "id", "\"", ":", " ", "1", ",", "\n",
      "    ", "\"", "name", "\"", ":", " ", "\"", "a", "\"", "\n",
      "  ", "}", ",", "\n",
      "  ", "{", "\n",
      "    ", "\"", "id", "\"", ":", " ", "2", ",", "\n",
      "    ", "\"", "name", "\"", ":", " ", "null", "\n",
      "  ", "}", "\n",
      "]">>

\* A reader of CSV: records end at a line feed and fields at a comma unless
\* inside double quotes, where two double quotes stand for one.
RECURSIVE readCSV(_, _, _, _, _)
readCSV(s, inQuotes, field, record, records) ==
    IF s = <<>> THEN Append(records, Append(record, field))
    ELSE LET ch == Head(s)
             rest == Tail(s)
         IN  IF inQuotes
             THEN IF ch # "\"" THEN readCSV(rest, TRUE, Append(field, ch), record, records)
                  ELSE IF rest # <<>> /\ Head(rest) = "\""
                  THEN readCSV(Tail(rest), TRUE, Append(field, "\""), record, records)
                  ELSE readCSV(rest, FALSE, field, record, records)
             ELSE CASE ch = "\"" -> readCSV(rest, TRUE, field, record, records)
                    [] ch = "," -> readCSV(rest, FALSE, <<>>, Append(record, field), records)
                    [] ch = "\n" ->
                         readCSV(rest, FALSE, <<>>, <<>>, Append(records, Append(record, field)))
                    [] OTHER -> readCSV(rest, FALSE, Append(field, ch), record, records)

\* The table a CSV export of the retained result holds: the names of the
\* columns, then for every row the text of its values, empty for null and
\* undefined.
Table(result, columns) ==
    <<[c \in 1..Len(columns) |-> <<columns[c]>>]>> \o
    [r \in 1..Len(result.rows) |->
        [c \in 1..Len(columns) |-> result.rows[r][columns[c]].v]]

\* C30: an export of the result with columns id, name and rows
\* {id: 1, name: 'a'}, {id: 2, name: null} writes, as CSV, the lines
\* "id,name", "1,a" and "2," and, as JSON, the two objects with name: null
\* kept; every CSV export reads back as the table of the result, with null
\* and undefined as empty fields and commas and double quotes kept by
\* quoting; and with no result retained an export shows the warning and
\* writes nothing.
C30_ExportWritesCsvAndJson ==
    /\ (/\ written.message = "success"
        /\ lastQueryResult = ExampleResult
        /\ written.columns = <<"id", "name">>) =>
            written.content =
                IF written.format = "csv" THEN ExampleCsv ELSE ExampleJson
    /\ (written.message = "success" /\ written.format = "csv") =>
            readCSV(written.content, FALSE, <<>>, <<>>, <<>>) =
                Table(lastQueryResult, written.columns)
    /\ lastQueryResult = NoLastResult =>
            \/ written = NoFile
            \/ \E f \in Formats :
                  written = [NoFile EXCEPT !.format = f, !.message = "warning"]
\* The example has been exported as CSV.
C30_Witness ==
    /\ lastQueryResult = ExampleResult
    /\ written = [format |-> "csv", columns |-> <<"id", "name">>,
                  content |-> ExampleCsv, message |-> "success"]

\* The statement of run t was sent outside any transaction: on a client
\* taken from the pool for it.
RanOutsideTransaction(t) == pc[t] = "run_pool_query"

\* C31: uncommittedQueries counts the statements run in the transaction:
\* a successful statement adds exactly 1 when its connection is in a
\* transaction, a statement sent outside a transaction or one that fails
\* adds nothing, and a successful begin, commit or rollback leaves 0.
C31_CountIsStatementsInTransaction ==
    [][\A t \in Tasks :
        /\ (RunSucceeds(t) /\ heap'[cs[t]] # Free) =>
            heap'[cs[t]].uncommittedQueries =
                heap[cs[t]].uncommittedQueries +
                    (IF heap[cs[t]].inTransaction /\ ~RanOutsideTransaction(t)
                     THEN 1 ELSE 0)
        /\ (Fails(t) /\ cs[t] # None /\ heap'[cs[t]] # Free) =>
            heap'[cs[t]].uncommittedQueries = heap[cs[t]].uncommittedQueries
        /\ \A o \in Objs :
            ((SuccessfulBegin(t, o) \/ SuccessfulEnd(t, o)) /\ heap'[o] # Free) =>
                heap'[o].uncommittedQueries = 0
      ]_vars

\* -------------------------------------------------------- profile edits
\* The panel's saveConnections message: the stored profiles are replaced by
\* the forms' content; the profile of id now has dbType d.  No connection
\* is touched.
saveConnections(id, d) ==
    /\ Running
    /\ connections[id] # "none"
    /\ connections' = [connections EXCEPT ![id] = d]
    /\ UNCHANGED <<activeConnections, activeConnection, locals>>
    /\ Collect(sweptHeap, sweptClients)

\* Runs under auto-commit 'auto' while profiles are edited.
NextEdit ==
    \/ \E t \in Ready, id \in Ids : connect_call(t, id)
    \/ \E t \in Ready : connect_resolve(t)
    \/ \E t \in Ready : connect_reject(t)
    \/ \E id \in Ids, d \in DbTypes : saveConnections(id, d)
    \/ \E id \in Ids \cup {None} : setActiveConnection(id)
    \/ \E t \in Ready, q \in Queries : run_call(t, q, "auto")
    \/ \E t \in Ready : run_not_live(t)
    \/ \E t \in Tasks : run_policy(t)
    \/ \E t \in Ready : run_pool_connected(t)
    \/ \E t \in Ready, r \in NonTabular : run_resolve(t, r)
    \/ \E t \in Ready : run_reject(t)
    \/ \E t \in Tasks : Return(t)

SpecEdit == Init /\ [][NextEdit]_vars

\* C32: a run dispatches its statement by the path of the dbType of the
\* live state it runs on, whatever has been done to the stored profile
\* since the connection was made, and the dbType of a registered state
\* never changes.
C32_DispatchMatchesLiveDbType ==
    [][/\ \A t \in Tasks :
            (/\ op[t] = "run" /\ pc[t] \in {"run_resolved", "run_begun"}
             /\ pc'[t] \in {"run_query", "run_pool_connect", "run_rejecting"}) =>
                connections[arg'[t]] = heap[HeldState(t)].dbType
       /\ \A id \in Ids :
            (activeConnections[id] # None
                    /\ activeConnections'[id] = activeConnections[id]) =>
                heap'[activeConnections[id]].dbType = heap[activeConnections[id]].dbType
      ]_vars

\* Invocation t holds a client it took from the pool for one statement.
HoldsPoolClient(t) == pc[t] \in {"run_pool_query", "browse_pool_query"}

\* The tree view's listing of t goes on the transaction client.
BrowsesInTransaction(t) ==
    op[t] = "browse" /\ pc[t] = "browse_query" /\ cl[t] # None

\* C33: a PostgreSQL statement outside a transaction, of a run or of the
\* tree view, goes on one client checked out of the pool for it, and when
\* the statement has resolved or rejected that client has been released
\* exactly once; a listing sent on the transaction client ends without
\* releasing it.
C33_PoolClientReleasedOnce ==
    [][\A t \in Tasks :
        /\ ChecksOut(t) =>
            /\ cl[t] = None /\ cl'[t] # None
            /\ clients[cl'[t]] = Free \/ GarbageClient(cl'[t])
            /\ clients'[cl'[t]].released = 0
            /\ \A u \in Tasks : u # t => cl'[u] # cl'[t]
        /\ HoldsPoolClient(t) => clients[cl[t]].released = 0
        /\ (HoldsPoolClient(t) /\ pc'[t] # pc[t]) =>
            clients'[cl[t]] = Free \/ clients'[cl[t]].released = 1
        /\ (BrowsesInTransaction(t) /\ pc'[t] # pc[t]) =>
            IF clients'[cl[t]] = Free THEN clients[cl[t]].released = 1
            ELSE clients'[cl[t]].released = clients[cl[t]].released
      ]_vars

\* A run and a listing await their statements, each on a pool client of
\* its own.
C33_Witness ==
    \E t \in Tasks, u \in Tasks :
        /\ op[t] = "run" /\ pc[t] = "run_pool_query"
        /\ op[u] = "browse" /\ pc[u] = "browse_pool_query"
        /\ cl[t] # cl[u]

\* ------------------------------------------------- raw driver results
\* What the drivers hand back for a statement that succeeds.  A row-map is
\* the sequence of its <<key, value>> pairs in the order the driver built
\* it.  pg gives one result object {command, rows, fields, rowCount}, or
\* an array of them for a text of several statements; mysql2 an array
\* [rows, fields] for a row set and [header, undefined] for anything else,
\* the header carrying affectedRows; sqlite3 the array of rows.  Numbers
\* are written as their text.
MaxStatements == 2
MaxAffected == 2
RawRowMaps == { << <<"id", "1">> >>, << <<"name", "a">>, <<"id", "2">> >> }
RawRowSets == UNION {[1..n -> RawRowMaps] : n \in 0..2}
FieldLists == { << [name |-> "id"] >>, << [name |-> "name"], [name |-> "id"] >> }
Counts == {ToString(k) : k \in 0..MaxAffected}
PgCommands == {"SELECT", "INSERT", "UPDATE"}
PgResults ==
    {[command |-> "SELECT", rows |-> rs, fields |-> fs, rowCount |-> ToString(Len(rs))] :
        rs \in RawRowSets, fs \in FieldLists} \cup
    {[command |-> c, rows |-> <<>>, fields |-> <<>>, rowCount |-> k] :
        c \in PgCommands \ {"SELECT"}, k \in Counts \cup {"null"}}
PgRaw ==
    {[isArray |-> FALSE, result |-> r] : r \in PgResults} \cup
    {[isArray |-> TRUE, items |-> rs] : rs \in [1..MaxStatements -> PgResults]}
MysqlRaw ==
    {[isArray |-> TRUE,
      items |-> << [isArray |-> TRUE, rows |-> rs], [isArray |-> TRUE, fields |-> fs] >>] :
        rs \in RawRowSets, fs \in FieldLists} \cup
    {[isArray |-> TRUE,
      items |-> << [isArray |-> FALSE, affectedRows |-> k], [isArray |-> FALSE] >>] :
        k \in Counts}
SqliteRaw == {[isArray |-> TRUE, rows |-> rs] : rs \in RawRowSets}
Raw(dbType) ==
    CASE dbType = "postgresql" -> PgRaw
      [] dbType = "mysql" -> MysqlRaw
      [] OTHER -> SqliteRaw

\* obj.name, undefined when the object has no such property
property(obj, name) == IF name \in DOMAIN obj THEN obj[name] ELSE "undefined"

\* `row${n !== 1 ? 's' : ''}`
rowWord(n) == IF n # "1" THEN "rows" ELSE "row"

\* Object.keys(rows[0]).map(name => ({ name }))
keyFields(row) == [i \in 1..Len(row) |-> [name |-> row[i][1]]]

\* A PostgreSQL handling that looks at the first result of several.
pgResult_first(result) ==
    IF result.isArray THEN result.items[1] ELSE result.result

\* Array.isArray(result) ? result[result.length - 1] : result
pgResult(result) ==
    IF result.isArray THEN result.items[Len(result.items)] ELSE result.result

\* An SQLite handling that takes an empty row array for a failure.
sqliteHandled_emptyFails(result) ==
    IF Len(result.rows) > 0
    THEN [tabular |-> TRUE, rows |-> result.rows, fields |-> keyFields(result.rows[1]),
          report |-> <<>>]
    ELSE [tabular |-> FALSE, report |-> <<"Query failed: ">>]

\* The sqlite branch: rows = result, fields from the first row if any.
sqliteHandled(result) ==
    [tabular |-> TRUE, rows |-> result.rows,
     fields |-> IF Len(result.rows) > 0 THEN keyFields(result.rows[1]) ELSE <<>>,
     report |-> <<>>]

\* The mysql branch: a row set if result[0] is an array, else the summary of
\* result.affectedRows.
mysqlHandled(result) ==
    IF result.isArray /\ Len(result.items) > 0 /\ result.items[1].isArray
    THEN [tabular |-> TRUE, rows |-> result.items[1].rows,
          fields |-> result.items[2].fields, report |-> <<>>]
    ELSE LET affectedRows == property(result, "affectedRows")
         IN  [tabular |-> FALSE,
              report |-> <<"Query OK, ", affectedRows, " ", rowWord(affectedRows),
                           " affected.">>]

\* The postgres branch: a row set if the command of the last result is
\* SELECT, else the summary of its command and rowCount || 0.
pgHandled(result) ==
    LET lastResult == pgResult(result)
    IN  IF lastResult.command = "SELECT"
        THEN [tabular |-> TRUE, rows |-> lastResult.rows, fields |-> lastResult.fields,
              report |-> <<>>]
        ELSE [tabular |-> FALSE,
              report |-> <<lastResult.command, " ",
                           IF lastResult.rowCount = "null" THEN "0"
                           ELSE lastResult.rowCount>>]

handled(dbType, result) ==
    CASE dbType = "sqlite" -> sqliteHandled(result)
      [] dbType = "mysql" -> mysqlHandled(result)
      [] OTHER -> pgHandled(result)

\* What is reported for a row set that was retained.
tableReport(rows, fields) ==
    IF Len(fields) = 0
    THEN <<"Query executed successfully, but no columns were returned.">>
    ELSE <<"Query returned ", ToString(Len(rows)), " ", rowWord(ToString(Len(rows))), ".">>

\* executeAndShowResults from the resolution of the statement on: the count
\* of a state in a transaction is incremented, then the result is handled
\* by the branch of dbType: a summary is reported and the function returns,
\* or the row set is retained and reported.
showResults ==
    /\ ~shown.handled
    /\ LET h == handled(shown.dbType, shown.result)
       IN  /\ shown' = [shown EXCEPT
                  !.handled = TRUE,
                  !.uncommittedQueries = IF shown.inTransaction THEN @ + 1 ELSE @,
                  !.report = IF h.tabular THEN tableReport(h.rows, h.fields)
                             ELSE h.report]
           /\ lastQueryResult' =
                  IF h.tabular THEN [rows |-> h.rows, fields |-> h.fields]
                  ELSE lastQueryResult
    /\ UNCHANGED <<activeConnections, heap, clients, config, locals, sent, written>>

\* A statement has resolved with any raw result of its backend, on a state
\* in or out of a transaction, with or without a result retained before.
InitShow ==
    /\ activeConnections = [i \in Ids |-> None]
    /\ heap = [o \in Objs |-> Free]
    /\ clients = [k \in Clients |-> Free]
    /\ lastQueryResult \in
          {NoLastResult, [rows |-> << << <<"id", "2">> >> >>, fields |-> << [name |-> "id"] >>]}
    /\ sent = NoText
    /\ written = NoFile
    /\ \E d \in DbTypes :
          /\ connections = [i \in Ids |-> d]
          /\ shown \in {[handled |-> FALSE, dbType |-> d, result |-> r,
                         inTransaction |-> b, before |-> n, uncommittedQueries |-> n,
                         report |-> <<>>] :
                            r \in Raw(d), b \in BOOLEAN, n \in 0..1}
    /\ activeConnection = None
    /\ op = [t \in Tasks |-> "none"]
    /\ pc = [t \in Tasks |-> "idle"]
    /\ arg = [t \in Tasks |-> None]
    /\ cs = [t \in Tasks |-> None]
    /\ txs = [t \in Tasks |-> None]
    /\ cl = [t \in Tasks |-> None]
    /\ query = [t \in Tasks |-> NoQuery]
    /\ outcome = [t \in Tasks |-> "none"]

NextShow == showResults

SpecShow == InitShow /\ [][NextShow]_vars

\* The raw result of the state's dbType is handled in this step.
Handles(dbType) == ~shown.handled /\ shown'.handled /\ shown.dbType = dbType

\* The result object that stands for a PostgreSQL run: the only one, or the
\* one of the last statement.
Surfaced(result) ==
    IF result.isArray
    THEN result.items[Len(result.items)]
    ELSE result.result

\* C34: for PostgreSQL the result of the last statement decides: a SELECT
\* is retained with its rows and fields, anything else is reported as its
\* command verb and row count and leaves what was retained; the run adds
\* one to the count of a state in a transaction however many results came.
C34_LastStatementDecides ==
    [][Handles("postgresql") =>
        /\ IF Surfaced(shown.result).command = "SELECT"
           THEN lastQueryResult' = [rows |-> Surfaced(shown.result).rows,
                                    fields |-> Surfaced(shown.result).fields]
           ELSE /\ lastQueryResult' = lastQueryResult
                /\ shown'.report[1] = Surfaced(shown.result).command
                /\ shown'.report[3] \in Counts
                /\ Surfaced(shown.result).rowCount \in Counts =>
                        shown'.report[3] = Surfaced(shown.result).rowCount
        /\ shown'.uncommittedQueries =
                shown.uncommittedQueries + (IF shown.inTransaction THEN 1 ELSE 0)
      ]_vars

\* A run of a SELECT followed by an INSERT was handled in a transaction:
\* the summary of the INSERT is reported, the result retained before is
\* still retained, and the count went up by one.
C34_Witness ==
    /\ shown.handled /\ shown.dbType = "postgresql"
    /\ shown.result.isArray
    /\ shown.result.items[1].command = "SELECT"
    /\ shown.result.items[Len(shown.result.items)].command = "INSERT"
    /\ shown.report = <<"INSERT", " ", "2">>
    /\ lastQueryResult # NoLastResult
    /\ shown.inTransaction /\ shown.uncommittedQueries = shown.before + 1

\* C35: for SQLite a statement that succeeds with no rows leaves a result
\* of zero rows and zero columns retained and is reported by the "no
\* columns were returned" message, not as a failure; with rows, the rows
\* are retained and the columns are the keys of the first row, in its
\* order.
C35_SqliteEmptyResultIsNoError ==
    [][Handles("sqlite") =>
        LET rows == shown.result.rows IN
        IF Len(rows) = 0
        THEN /\ lastQueryResult' = [rows |-> <<>>, fields |-> <<>>]
             /\ shown'.report =
                    <<"Query executed successfully, but no columns were returned.">>
        ELSE /\ lastQueryResult'.rows = rows
             /\ Len(lastQueryResult'.fields) = Len(rows[1])
             /\ \A i \in 1..Len(rows[1]) :
                    lastQueryResult'.fields[i].name = rows[1][i][1]
             /\ shown'.report[1] = "Query returned "
      ]_vars

\* An SQLite statement with no rows was handled: the empty result is
\* retained and the message shown.
C35_Witness ==
    /\ shown.handled /\ shown.dbType = "sqlite"
    /\ shown.result.rows = <<>>
    /\ lastQueryResult = [rows |-> <<>>, fields |-> <<>>]
    /\ shown.report = <<"Query executed successfully, but no columns were returned.">>

\* C36: a raw result is taken for a row set exactly when it is one, and the
\* summary of anything else carries the driver's affected-row count: MySQL
\* reports "Query OK, k row(s) affected." for the k of the result header,
\* PostgreSQL "<COMMAND> k"; a row set is retained, a summary retains
\* nothing.
C36_SummaryCarriesAffectedRows ==
    [][/\ Handles("mysql") =>
            LET first == shown.result.items[1] IN
            IF first.isArray
            THEN lastQueryResult' = [rows |-> first.rows,
                                     fields |-> shown.result.items[2].fields]
            ELSE /\ lastQueryResult' = lastQueryResult
                 /\ shown'.report =
                        <<"Query OK, ", first.affectedRows, " ",
                          IF first.affectedRows = "1" THEN "row" ELSE "rows",
                          " affected.">>
       /\ Handles("postgresql") =>
            LET last == Surfaced(shown.result) IN
            IF last.command = "SELECT"
            THEN lastQueryResult' = [rows |-> last.rows, fields |-> last.fields]
            ELSE /\ lastQueryResult' = lastQueryResult
                 /\ shown'.report =
                        <<last.command, " ",
                          IF last.rowCount = "null" THEN "0" ELSE last.rowCount>>
      ]_vars

\* C37: the rollback a run issues when its statement fails in a transaction
\* is a rollback of the state the statement ran on, also when another
\* connection was made the active one while the statement was awaited; the
\* run ends the transaction of no other state.
C37_RollbackOnFailingConnection ==
    [][\A t \in Tasks :
        /\ (FailsInTransaction(t) /\ pc'[t] = "rollback_await") => txs'[t] = cs[t]
        /\ (op[t] = "run" /\ pc[t] = "rollback_await" /\ pc'[t] # pc[t]
                /\ activeConnections[heap[cs[t]].id] = cs[t]) =>
                \A o \in Objs :
                    (o # cs[t] /\ heap[o] # Free /\ heap'[o] # Free) =>
                        heap'[o].inTransaction = heap[o].inTransaction
      ]_vars

\* Invocation t calls end() or close() on the main handle of state o in
\* this step: a disconnect, from a command, from disconnectAll or from the
\* deletion of the profile, finds o registered for its id.
Closes(t, o) ==
    /\ op'[t] = "disconnect" /\ pc[t] \in {"idle", "disconnect_start"}
    /\ pc'[t] # "disconnect_start"
    /\ o # None /\ activeConnections[arg'[t]] = o

\* C38: end() or close() is called on a main handle at most once, whatever
\* the interleaving of disconnects on its id, and no run sends a statement
\* on a main handle that was closed.
C38_MainHandleClosedOnce ==
    [][\A t \in Tasks :
        /\ \A o \in Objs : Closes(t, o) => heap[o].mainClient = "open"
        /\ (op[t] = "run" /\ pc[t] \in {"run_resolved", "run_begun", "run_pool_connect"}
                /\ pc'[t] \in {"run_query", "run_pool_connect", "run_pool_query"}) =>
            heap[cs'[t]].mainClient # "closed"
      ]_vars

\* The beginTransaction of invocation t fails in this step: its pool
\* checkout or its BEGIN rejects.
BeginFails(t) ==
    /\ pc[t] \in {"begin_connect", "begin_begin"}
    /\ pc'[t] \notin {"begin_connect", "begin_begin", "run_begun"}
    /\ ~(op[t] = "begin" /\ outcome'[t] = "ok")

\* C39: a beginTransaction that fails leaves the state of its connection
\* as it was (no transaction, the count, no transaction client), leaves no
\* pool client checked out, and a run that called it reports the failure
\* without sending its statement and without a rollback.
C39_FailedBeginLeavesIdle ==
    [][\A t \in Tasks :
        BeginFails(t) =>
            /\ heap'[txs[t]] # Free => heap'[txs[t]] = heap[txs[t]]
            /\ cl[t] # None =>
                (clients'[cl[t]] = Free \/ clients'[cl[t]].released = 1)
            /\ op[t] = "run" => (pc'[t] = "done" /\ outcome'[t] = "failed")
      ]_vars

\* C40: in every state of every DbClient, whatever runs, commits,
\* rollbacks and disconnects have been interleaved on it, a count above zero
\* comes with inTransaction = true, and the count is never negative.
C40_CountOnlyInTransaction ==
    \A o \in Objs :
        heap[o] # Free =>
            /\ heap[o].uncommittedQueries >= 0
            /\ heap[o].uncommittedQueries > 0 => heap[o].inTransaction

\* A statement sent on the transaction client is still awaited while its
\* transaction has been ended: the state it will complete on is Idle with
\* count 0.
C40_Witness ==
    \E u \in Tasks :
        /\ op[u] = "run" /\ pc[u] = "run_query"
        /\ activeConnections[arg[u]] = cs[u]
        /\ heap[cs[u]].dbType = "postgresql"
        /\ ~heap[cs[u]].inTransaction
        /\ heap[cs[u]].uncommittedQueries = 0
====
